---- MODULE Spec2Model ----
(***************************************************************************)
(* Model of md-to-ebook's Mermaid rendering subsystem                      *)
(* (src/src/utils/mermaid_renderer.py): the SVG normalizer                 *)
(* _process_svg_for_pdf with its converters and style passes, and the      *)
(* browser/page lifecycle of render_mermaid_to_svg inside one export run   *)
(* (src/src/exporters/markdown_processor.py, pdf_exporter.py); and of      *)
(* resolve_book_structure_paths (src/src/utils/config_loader.py).          *)
(*                                                                         *)
(* The parsed document is an arena of nodes in document (pre-)order; each  *)
(* node carries its tag, its parent's index, the attributes the code       *)
(* reads or writes, and its own text.  Strings the code searches inside    *)
(* (class names, text content) are sequences of characters; a style        *)
(* attribute is the sequence of its ';'-separated parts.                   *)
(***************************************************************************)
EXTENDS Integers, Sequences, FiniteSets, TLC

VARIABLES
    dom,        \* the BeautifulSoup tree the normalizer mutates in place
    input,      \* the tree as parsed, before any mutation
    pc,         \* position of the normalizer / of the style driver
    result,     \* what _process_svg_for_pdf returned
    converted,  \* the tree between the conversion loop and the style passes
    grouped,    \* class_groups as the grouping loop left it
    parents,    \* the node_parent the grouping loop found for each foreignObject
    lastOp,     \* the style function applied last, and to which node
    prevOp,     \* the style function applied before that
    prevDom,    \* the tree before the last style function was applied
    applied,    \* number of style functions applied so far
    playwright, \* MermaidRenderer.playwright
    browser,    \* MermaidRenderer.browser
    rpc,        \* position inside render_mermaid_to_svg
    page,       \* the page of the render call in progress (0: none)
    openPages,  \* pages opened and not yet closed
    opened,     \* number of pages opened so far
    pending,    \* how the render call in progress is about to end
    outcome,    \* how the last render call ended
    calls,      \* number of render calls started
    blocks,     \* the fenced code blocks of the run's content, in order
    replaced,   \* the replacements highlight_code returned so far
    how,        \* how the render call of each replaced block ended
    run,        \* the export run: running or finished
    held,       \* a raised call's traceback still refers to the renderer
    launched,   \* browsers launched since the renderer was made or closed
    trace,      \* the steps of the render call in progress (or the last one)
    call,       \* a function called on its own: its name and arguments
    ret         \* what that call returned

vars == <<dom, input, pc, result, converted, grouped, parents, lastOp, prevOp, prevDom, applied,
          playwright, browser, rpc, page, openPages, opened, pending, outcome, calls,
          blocks, replaced, how, run, held, launched, trace, call, ret>>

normVars == <<dom, input, pc, result, converted, grouped, parents>>
styleVars == <<lastOp, prevOp, prevDom, applied>>
fnVars == <<call, ret>>
renderVars ==
    <<playwright, browser, rpc, page, openPages, opened, pending, outcome, calls,
      blocks, replaced, how, run, held, launched, trace>>

(***************************************************************************)
(* Bounds of the model.                                                    *)
(***************************************************************************)
MaxItems == 2        \* children of the diagram group in a general document
MaxMembers == 4      \* foreignObjects of one class box
MaxStyleParts == 2   \* declarations of an input style attribute
MaxApply == 3        \* style functions applied in a row
MaxCalls == 3        \* render calls on one renderer

(***************************************************************************)
(* Character strings.                                                      *)
(***************************************************************************)
sNode == <<"n","o","d","e">>
sDefault == <<"d","e","f","a","u","l","t">>
sNodes == <<"n","o","d","e","s">>
sDefaultStyle == <<"d","e","f","a","u","l","t","S","t","y","l","e">>
sClassGroup == <<"c","l","a","s","s","G","r","o","u","p">>
sLabel == <<"l","a","b","e","l">>
sEdgeLabel == <<"e","d","g","e","L","a","b","e","l">>
sText == <<"t","e","x","t">>

tAnimal == <<"A","n","i","m","a","l">>
tNameString == <<"+","n","a","m","e",":"," ","s","t","r","i","n","g">>
tClassName == <<"C","l","a","s","s","N","a","m","e">>
tFieldType == <<"+","f","i","e","l","d",":"," ","T","y","p","e">>
tMethod == <<"+","m","e","t","h","o","d","(",")">>
tHello == <<"H","i">>
tPadded == <<" ","O","k"," ">>
tBlank == <<" ">>

Whitespace == {" ", "\t", "\n"}

\* str.lower() on the letters that occur in the model's class names
LowerChar(c) ==
    CASE c = "A" -> "a" [] c = "C" -> "c" [] c = "G" -> "g" [] c = "L" -> "l"
      [] c = "N" -> "n" [] c = "S" -> "s" [] c = "T" -> "t" [] OTHER -> c

Lower(s) == [k \in 1..Len(s) |-> LowerChar(s[k])]

\* Python's `sub in s` on strings
Contains(s, sub) ==
    \E k \in 1..(Len(s) - Len(sub) + 1) : SubSeq(s, k, k + Len(sub) - 1) = sub

RECURSIVE LStrip(_)
LStrip(s) == IF s # <<>> /\ Head(s) \in Whitespace THEN LStrip(Tail(s)) ELSE s

RECURSIVE RStrip(_)
RStrip(s) ==
    IF s # <<>> /\ s[Len(s)] \in Whitespace THEN RStrip(SubSeq(s, 1, Len(s) - 1)) ELSE s

\* str.strip()
Strip(s) == RStrip(LStrip(s))

\* ' '.join(list_of_strings)
RECURSIVE JoinSpace(_)
JoinSpace(ss) ==
    IF ss = <<>> THEN <<>>
    ELSE IF Len(ss) = 1 THEN ss[1]
    ELSE ss[1] \o <<" ">> \o JoinSpace(Tail(ss))

(***************************************************************************)
(* Attribute values.  A geometry attribute is absent, a string float()     *)
(* parses, or a string float() rejects.                                    *)
(***************************************************************************)
NoAttr == [k |-> "none", n |-> 0]
Num(v) == [k |-> "num", n |-> v]
BadNum == [k |-> "bad", n |-> 0]

\* element.get(name, default) followed by float(): the value, or "raise"
\* for the ValueError of an unparseable string
ParseFloat(a, default) ==
    CASE a.k = "none" -> [ok |-> TRUE, n |-> default]
      [] a.k = "num" -> [ok |-> TRUE, n |-> a.n]
      [] OTHER -> [ok |-> FALSE, n |-> 0]

(***************************************************************************)
(* Style attributes.  The string is split at ';' into parts; a part is a   *)
(* declaration "prop: val", possibly after one blank, or holds no          *)
(* declaration (prop = "").                                                *)
(***************************************************************************)
Decl(p, v) == [prop |-> p, val |-> v, sp |-> FALSE]
SpDecl(p, v) == [prop |-> p, val |-> v, sp |-> TRUE]
EmptyPart == [prop |-> "", val |-> "", sp |-> FALSE]

DarkColor == "#111827"
DarkImportant == "#111827 !important"
StrokeColor == "#374151"
LightFill == "#f9fafb"
FontStack == "-apple-system, BlinkMacSystemFont, \"Segoe UI\", \"Roboto\", sans-serif"

\* `'name:' in part`: the part's text holds "name:" when its property name
\* ends in name (no value of the model holds a colon)
PropEndsWith(prop, name) ==
    \/ prop = name
    \/ name = "stroke" /\ prop = "-webkit-text-stroke"

PartContains(part, name) == part.prop # "" /\ PropEndsWith(part.prop, name)

\* `part.strip().startswith('name:')`
PartStartsWith(part, name) == part.prop = name

\* part.strip()
StripPart(part) == [part EXCEPT !.sp = FALSE]

\* `'name:' in style`
StyleContains(style, name) == \E k \in 1..Len(style) : PartContains(style[k], name)

\* '; '.join(parts) of stripped parts
JoinParts(parts) ==
    [k \in 1..Len(parts) |-> IF k = 1 THEN parts[k] ELSE [parts[k] EXCEPT !.sp = TRUE]]

\* style + '; prop: val'
AppendDecl(style, p, v) ==
    IF style = <<>> THEN <<EmptyPart, SpDecl(p, v)>> ELSE Append(style, SpDecl(p, v))

\* style + '; prop: val;'
AppendDeclSemi(style, p, v) == Append(AppendDecl(style, p, v), EmptyPart)

\* [part.strip() for part in style.split(';') if part.strip()]
StrippedParts(style) ==
    LET keep == SelectSeq(style, LAMBDA part : part.prop # "")
    IN [k \in 1..Len(keep) |-> StripPart(keep[k])]

(***************************************************************************)
(* Nodes of the parsed tree.                                               *)
(***************************************************************************)
NoKey == [kind |-> "none", s |-> "", n |-> 0]
StrKey(str) == [kind |-> "str", s |-> str, n |-> 0]
\* f"individual_{n}"
IndividualKey(num) == [kind |-> "individual", s |-> "", n |-> num]

Node(tag, parent) ==
    [tag |-> tag, parent |-> parent, cls |-> <<>>, dataid |-> NoKey, role |-> "",
     x |-> NoAttr, y |-> NoAttr, width |-> NoAttr, height |-> NoAttr,
     style |-> <<>>, fill |-> "", anchor |-> "", baseline |-> "",
     transform |-> <<>>, text |-> <<>>, alive |-> TRUE, orig |-> 0]

Indices(t) == [k \in 1..Len(t) |-> k]

RECURSIVE IsAncestor(_, _, _)
IsAncestor(t, a, j) ==
    LET p == t[j].parent IN p # 0 /\ (p = a \/ IsAncestor(t, a, p))

\* tag.find_all(names): the attached descendants of node i with one of the
\* tags, in document order
find_all(t, i, names) ==
    SelectSeq(Indices(t),
              LAMBDA j : t[j].alive /\ t[j].tag \in names /\ IsAncestor(t, i, j))

\* soup.find_all(names): every attached node with one of the tags
soup_find_all(t, names) ==
    SelectSeq(Indices(t), LAMBDA j : t[j].alive /\ t[j].tag \in names)

\* variant: the first element of the document, whatever its tag
find_first_element(t) ==
    LET found == SelectSeq(Indices(t), LAMBDA j : t[j].alive)
    IN IF found = <<>> THEN 0 ELSE found[1]

\* soup.find('svg'): the first svg element, 0 for None
find_svg(t) ==
    LET found == soup_find_all(t, {"svg"}) IN IF found = <<>> THEN 0 ELSE found[1]

RECURSIVE ConcatStripped(_, _)
ConcatStripped(t, idxs) ==
    IF idxs = <<>> THEN <<>>
    ELSE Strip(t[Head(idxs)].text) \o ConcatStripped(t, Tail(idxs))

\* tag.get_text(strip=True): the stripped strings of the subtree, joined
get_text(t, i) ==
    ConcatStripped(t, SelectSeq(Indices(t),
                                LAMBDA j : t[j].alive /\ (j = i \/ IsAncestor(t, i, j))))

\* `' '.join(parent_class)` of one element's class list
ClassString(n) == JoinSpace(n.cls)

(***************************************************************************)
(* Text extraction shared by both converters.                              *)
(***************************************************************************)
\* variant: of several longest contents the last one wins
longest_content_last(t, divs, best) ==
    LET withText == {k \in 1..Len(divs) : get_text(t, divs[k]) # <<>>}
        longest == {k \in withText :
                       \A m \in withText :
                           Len(get_text(t, divs[m])) <= Len(get_text(t, divs[k]))}
    IN IF longest = {} THEN best
       ELSE get_text(t, divs[CHOOSE k \in longest : \A m \in longest : m <= k])

RECURSIVE LongestContent(_, _, _)
LongestContent(t, divs, best) ==
    IF divs = <<>> THEN best
    ELSE LET content == get_text(t, Head(divs))
         IN LongestContent(t, Tail(divs),
                           IF content # <<>> /\ Len(content) > Len(best)
                           THEN content ELSE best)

extract_text(t, fo) ==
    LET text_content == LongestContent(t, find_all(t, fo, {"div", "span"}), <<>>)
    IN IF text_content # <<>> THEN text_content ELSE get_text(t, fo)

(***************************************************************************)
(* _get_parent_class_name: the class names of every ancestor below the     *)
(* svg, nearest first, joined by blanks.                                   *)
(***************************************************************************)
RECURSIVE AncestorClassNames(_, _)
AncestorClassNames(t, p) ==
    IF p = 0 \/ t[p].tag = "svg" THEN <<>>
    ELSE t[p].cls \o AncestorClassNames(t, t[p].parent)

get_parent_class_name(t, i) == JoinSpace(AncestorClassNames(t, t[i].parent))

(***************************************************************************)
(* _get_parent_transform.  A transform attribute is the sequence of its    *)
(* transform functions; a function has one argument or two (b is NoAttr    *)
(* when the second is left out), each a string float() parses or rejects.  *)
(***************************************************************************)
Translate(a, b) == [fn |-> "translate", a |-> a, b |-> b]
Scale(a) == [fn |-> "scale", a |-> a, b |-> NoAttr]

\* re.search(r'translate\(([^,\)]+)(?:,([^,\)]+))?\)', transform): the
\* first translate function of the attribute, as <<match>>, or <<>> for None
search_translate(transform) ==
    LET ks == SelectSeq([k \in 1..Len(transform) |-> k],
                        LAMBDA k : transform[k].fn = "translate")
    IN IF ks = <<>> THEN <<>> ELSE <<transform[ks[1]]>>

\* the body of the while loop for one ancestor; info is transform_info, or
\* the ValueError float() raised
add_parent_transform(n, info) ==
    LET match == search_translate(n.transform)
    IN IF ~info.ok \/ n.tag # "g" \/ match = <<>> THEN info
       ELSE LET x_val == ParseFloat(match[1].a, 0)
                y_val == ParseFloat(match[1].b, 0)
            IN IF ~x_val.ok \/ ~y_val.ok THEN [ok |-> FALSE, x |-> 0, y |-> 0]
               ELSE [ok |-> TRUE, x |-> info.x + x_val.n, y |-> info.y + y_val.n]

RECURSIVE ParentTransformFrom(_, _, _)
ParentTransformFrom(t, p, info) ==
    IF p = 0 \/ t[p].tag = "svg" THEN info
    ELSE ParentTransformFrom(t, t[p].parent, add_parent_transform(t[p], info))

get_parent_transform(t, i) ==
    ParentTransformFrom(t, t[i].parent, [ok |-> TRUE, x |-> 0, y |-> 0])

(***************************************************************************)
(* The converters.  Each returns the replacement as a sequence of nodes:   *)
(* <<>> for None, else the new element followed by its children.           *)
(***************************************************************************)
base_y == 15
line_height == 16
DefaultWidth == 100
DefaultHeight == 20
BaselineShift == 4

TitleStyle ==
    <<Decl("font-family", FontStack), SpDecl("font-size", "16px"),
      SpDecl("font-weight", "bold"), SpDecl("fill", DarkColor), EmptyPart>>

RegularStyle ==
    <<Decl("font-family", FontStack), SpDecl("font-size", "14px"),
      SpDecl("font-weight", "500"), SpDecl("fill", DarkColor), EmptyPart>>

Markers == {"+", "-", "#", "~"}

HasMarker(text_content) == \E k \in 1..Len(text_content) : text_content[k] \in Markers

\* soup.new_tag('text') with the attributes both converters set
NewText(xv, yv, style, text_content) ==
    [Node("text", 0) EXCEPT !.x = Num(xv), !.y = Num(yv), !.anchor = "middle",
                            !.baseline = "middle", !.fill = DarkColor,
                            !.style = style, !.text = text_content]

\* widths and heights of the model are even, so that width / 2 is exact
Half(v) == v \div 2

\* variant: the vertical offset leaves out base_y
convert_for_class_without_base(t, fo, index, total_count) ==
    LET text_content == extract_text(t, fo)
        width == ParseFloat(t[fo].width, DefaultWidth)
        y_offset == index * line_height
    IN IF text_content = <<>> \/ ~width.ok THEN <<>>
       ELSE IF index <= 1 /\ ~HasMarker(text_content)
            THEN <<NewText(Half(width.n), y_offset, TitleStyle, text_content)>>
            ELSE <<NewText(Half(width.n), y_offset, RegularStyle, text_content)>>

\* variant: only the first member of a box can be its title
convert_for_class_title_first(t, fo, index, total_count) ==
    LET text_content == extract_text(t, fo)
        width == ParseFloat(t[fo].width, DefaultWidth)
        y_offset == base_y + (index * line_height)
    IN IF text_content = <<>> \/ ~width.ok THEN <<>>
       ELSE IF index < 1 /\ ~HasMarker(text_content)
            THEN <<NewText(Half(width.n), y_offset, TitleStyle, text_content)>>
            ELSE <<NewText(Half(width.n), y_offset, RegularStyle, text_content)>>

convert_foreign_object_to_text_for_class(t, fo, index, total_count) ==
    LET text_content == extract_text(t, fo)
        width == ParseFloat(t[fo].width, DefaultWidth)
        y_offset == base_y + (index * line_height)
    IN IF text_content = <<>> THEN <<>>
       ELSE IF ~width.ok THEN <<>>
       ELSE IF Strip(text_content) = <<>> THEN <<>>
       ELSE IF index <= 1 /\ ~HasMarker(text_content)
            THEN <<NewText(Half(width.n), y_offset, TitleStyle, text_content)>>
            ELSE <<NewText(Half(width.n), y_offset, RegularStyle, text_content)>>

\* variant: one text element per wrapper that holds text, inside a new g
\* (the shape of the unused _convert_foreign_object_to_text)
RECURSIVE TextPerWrapper(_, _)
TextPerWrapper(t, wrappers) ==
    IF wrappers = <<>> THEN <<>>
    ELSE LET content == get_text(t, Head(wrappers))
         IN (IF content = <<>> THEN <<>>
             ELSE <<NewText(Half(DefaultWidth), base_y, RegularStyle, content)>>)
            \o TextPerWrapper(t, Tail(wrappers))

convert_foreign_object_to_text_group(t, fo) ==
    LET lines == TextPerWrapper(t, find_all(t, fo, {"div", "span", "p"}))
    IN IF lines = <<>> THEN <<>>
       ELSE IF Len(lines) = 1 THEN lines
       ELSE <<Node("g", 0)>> \o lines

convert_foreign_object_to_text_simple(t, fo) ==
    LET text_content == extract_text(t, fo)
        width == ParseFloat(t[fo].width, DefaultWidth)
        height == ParseFloat(t[fo].height, DefaultHeight)
        x_pos == ParseFloat(t[fo].x, 0)
        y_pos == ParseFloat(t[fo].y, 0)
        relative == NewText(Half(width.n), Half(height.n) + BaselineShift,
                            RegularStyle, text_content)
    IN IF text_content = <<>> THEN <<>>
       ELSE IF ~width.ok \/ ~height.ok THEN <<>>
       ELSE IF ~x_pos.ok \/ ~y_pos.ok THEN <<relative>>
       ELSE IF Contains(get_parent_class_name(t, fo), sClassGroup)
            THEN <<NewText(x_pos.n + Half(width.n),
                           y_pos.n + Half(height.n) + BaselineShift,
                           RegularStyle, text_content)>>
            ELSE <<relative>>

(***************************************************************************)
(* Tree mutation.                                                          *)
(***************************************************************************)
\* foreign_obj.decompose(): the element and its subtree leave the tree
decompose(t, i) ==
    [j \in 1..Len(t) |->
        IF j = i \/ IsAncestor(t, i, j) THEN [t[j] EXCEPT !.alive = FALSE] ELSE t[j]]

\* foreign_obj.replace_with(elems[1]): the new element takes the place of
\* node i, whose subtree leaves the tree; the new element's own children
\* follow it
replace_with(t, i, elems) ==
    LET cut == [j \in 1..Len(t) |->
                   IF IsAncestor(t, i, j) THEN [t[j] EXCEPT !.alive = FALSE]
                   ELSE IF j = i
                        THEN [elems[1] EXCEPT !.parent = t[i].parent, !.orig = i]
                        ELSE t[j]]
        kids == [k \in 1..(Len(elems) - 1) |->
                   [elems[k + 1] EXCEPT !.parent = i, !.orig = i]]
    IN cut \o kids

(***************************************************************************)
(* Grouping (_process_svg_for_pdf, first loop).  class_groups is a dict,   *)
(* kept here as the sequence of its items in insertion order.              *)
(***************************************************************************)
\* the while loop: the nearest ancestor below the svg whose class string
\* holds both "node" and "default"; 0 for None
RECURSIVE NodeParentFrom(_, _)
NodeParentFrom(t, p) ==
    IF p = 0 \/ t[p].tag = "svg" THEN 0
    ELSE IF Contains(ClassString(t[p]), sNode) /\ Contains(ClassString(t[p]), sDefault)
         THEN p
         ELSE NodeParentFrom(t, t[p].parent)

node_parent(t, fo) == NodeParentFrom(t, t[fo].parent)

is_class_diagram(t) ==
    LET svg_element == find_svg(t)
    IN svg_element # 0 /\ t[svg_element].role = "classDiagram"

KeyIndex(groups, key) ==
    LET hits == SelectSeq([k \in 1..Len(groups) |-> k], LAMBDA k : groups[k].key = key)
    IN IF hits = <<>> THEN 0 ELSE hits[1]

\* node_parent.get('data-id', 'class_unknown')
GroupId(n) == IF n.dataid = NoKey THEN StrKey("class_unknown") ELSE n.dataid

\* one iteration of `for foreign_obj in foreign_objects`
AddToGroups(t, groups, fo) ==
    LET np == node_parent(t, fo)
    IN IF is_class_diagram(t) /\ np # 0
       THEN LET group_id == GroupId(t[np])
                at == KeyIndex(groups, group_id)
            IN IF at = 0
               THEN Append(groups, [key |-> group_id, objs |-> <<fo>>])
               ELSE [groups EXCEPT ![at].objs = Append(@, fo)]
       ELSE LET individual_key == IndividualKey(Len(groups))
                at == KeyIndex(groups, individual_key)
            IN IF at = 0
               THEN Append(groups, [key |-> individual_key, objs |-> <<fo>>])
               ELSE [groups EXCEPT ![at].objs = <<fo>>]

RECURSIVE GroupFrom(_, _, _)
GroupFrom(t, fos, groups) ==
    IF fos = <<>> THEN groups
    ELSE GroupFrom(t, Tail(fos), AddToGroups(t, groups, Head(fos)))

\* variant: the selector also matches text elements
class_groups_of_text_too(t) ==
    GroupFrom(t, soup_find_all(t, {"foreignobject", "text"}), <<>>)

class_groups(t) == GroupFrom(t, soup_find_all(t, {"foreignobject"}), <<>>)

\* the node_parent of each pass of the loop, in the order of the loop
node_parents(t) ==
    LET foreign_objects == soup_find_all(t, {"foreignobject"})
    IN [k \in 1..Len(foreign_objects) |->
           [fo |-> foreign_objects[k], node_parent |-> node_parent(t, foreign_objects[k])]]

(***************************************************************************)
(* Conversion (_process_svg_for_pdf, second loop).                         *)
(***************************************************************************)
\* `if text_element: replace_with(...) else: decompose()`
ReplaceOrDrop(t, fo, text_element) ==
    IF text_element # <<>> THEN replace_with(t, fo, text_element) ELSE decompose(t, fo)

RECURSIVE ConvertClassMembers(_, _, _)
ConvertClassMembers(t, objs, i) ==
    IF i > Len(objs) THEN t
    ELSE ConvertClassMembers(
             ReplaceOrDrop(t, objs[i],
                 convert_foreign_object_to_text_for_class(t, objs[i], i - 1, Len(objs))),
             objs, i + 1)

RECURSIVE ConvertSingles(_, _)
ConvertSingles(t, objs) ==
    IF objs = <<>> THEN t
    ELSE ConvertSingles(
             ReplaceOrDrop(t, Head(objs),
                 convert_foreign_object_to_text_simple(t, Head(objs))),
             Tail(objs))

\* one iteration of `for group_id, group_objects in class_groups.items()`;
\* cd is is_class_diagram, computed once before the loops
ConvertGroup(t, cd, group_objects) ==
    IF cd /\ Len(group_objects) > 1
    THEN ConvertClassMembers(t, group_objects, 1)
    ELSE ConvertSingles(t, group_objects)

RECURSIVE ConvertGroups(_, _, _)
ConvertGroups(t, cd, groups) ==
    IF groups = <<>> THEN t
    ELSE ConvertGroups(ConvertGroup(t, cd, Head(groups).objs), cd, Tail(groups))

\* the tree after both loops
convert_foreign_objects(t) == ConvertGroups(t, is_class_diagram(t), class_groups(t))

(***************************************************************************)
(* Style applicators.                                                      *)
(***************************************************************************)
apply_dark_text_style(n) ==
    LET kept == SelectSeq(StrippedParts(n.style),
                          LAMBDA part : ~PartStartsWith(part, "fill"))
        style_parts == kept \o <<Decl("fill", DarkImportant),
                                 Decl("font-weight", "500"),
                                 Decl("font-family", FontStack)>>
    IN [n EXCEPT !.style = JoinParts(style_parts), !.fill = DarkColor]

apply_dark_stroke_style(n) ==
    LET parts == StrippedParts(n.style)
        has_stroke == \E k \in 1..Len(parts) : PartContains(parts[k], "stroke")
        style_parts ==
            IF ~has_stroke
            THEN parts \o <<Decl("stroke", StrokeColor), Decl("stroke-width", "2px")>>
            ELSE [k \in 1..Len(parts) |->
                     IF PartStartsWith(parts[k], "stroke")
                     THEN Decl("stroke", StrokeColor) ELSE parts[k]]
    IN [n EXCEPT !.style = JoinParts(style_parts)]

apply_shape_style(n) ==
    LET parts == StrippedParts(n.style)
        has_stroke == \E k \in 1..Len(parts) : PartContains(parts[k], "stroke")
        has_fill == \E k \in 1..Len(parts) : PartContains(parts[k], "fill")
        with_stroke ==
            IF ~has_stroke
            THEN parts \o <<Decl("stroke", StrokeColor), Decl("stroke-width", "2px")>>
            ELSE parts
        style_parts ==
            IF ~has_fill THEN Append(with_stroke, Decl("fill", LightFill)) ELSE with_stroke
    IN [n EXCEPT !.style = JoinParts(style_parts)]

\* variant: tspan elements are left out
TextTagOnly == {"text"}

TextTags == {"text", "tspan"}
ShapeTags == {"rect", "circle", "ellipse", "polygon", "polyline"}
WrapperTags == {"div", "span"}
FinalWrapperTags == {"div", "span", "p"}

\* `for e in soup.find_all(tags): f(e)`
ApplyToAll(t, tags, f(_)) ==
    [j \in 1..Len(t) |-> IF t[j].alive /\ t[j].tag \in tags THEN f(t[j]) ELSE t[j]]

\* `for e in tag.find_all(tags): f(e)` below node i
ApplyBelow(t, i, tags, f(_)) ==
    [j \in 1..Len(t) |->
        IF t[j].alive /\ t[j].tag \in tags /\ IsAncestor(t, i, j) THEN f(t[j]) ELSE t[j]]

\* element['style'] = element.get('style', '') + '; color: #111827 !important;'
ForceColor(n) == [n EXCEPT !.style = AppendDeclSemi(@, "color", DarkImportant)]

\* ... + '; color: #111827 !important; font-weight: 500 !important;'
ForceColorAndWeight(n) ==
    [n EXCEPT !.style =
        Append(Append(AppendDecl(@, "color", DarkImportant),
                      SpDecl("font-weight", "500 !important")), EmptyPart)]

\* the div/span (or div/span/p) elements below any foreignObject below node i
\* get f applied once per enclosing foreignObject; the model's documents do
\* not nest foreignObjects
ApplyInForeign(t, fos, tags, f(_)) ==
    [j \in 1..Len(t) |->
        IF /\ t[j].alive
           /\ t[j].tag \in tags
           /\ \E k \in 1..Len(fos) : IsAncestor(t, fos[k], j)
        THEN f(t[j]) ELSE t[j]]

process_group_elements(t, g) ==
    LET current_class == Lower(ClassString(t[g]))
    IN IF Contains(current_class, sLabel) \/ Contains(current_class, sText)
       THEN LET styled == ApplyBelow(t, g, TextTags, apply_dark_text_style)
            IN ApplyInForeign(styled, find_all(styled, g, {"foreignobject"}),
                              WrapperTags, ForceColor)
       ELSE t

RECURSIVE ProcessGroups(_, _)
ProcessGroups(t, gs) ==
    IF gs = <<>> THEN t ELSE ProcessGroups(process_group_elements(t, Head(gs)), Tail(gs))

\* the finalizer's sweep over text/tspan
FinalTextFix(n) ==
    LET s1 == IF ~StyleContains(n.style, "fill")
              THEN AppendDecl(n.style, "fill", DarkImportant) ELSE n.style
        s2 == IF ~StyleContains(s1, "font-weight")
              THEN AppendDecl(s1, "font-weight", "500") ELSE s1
        s3 == IF ~StyleContains(s2, "font-family")
              THEN AppendDecl(s2, "font-family", FontStack) ELSE s2
    IN [n EXCEPT !.fill = DarkColor, !.style = s3]

apply_final_text_visibility_fixes(t) ==
    LET fixed == ApplyToAll(t, TextTags, FinalTextFix)
    IN ApplyInForeign(fixed, soup_find_all(fixed, {"foreignobject"}),
                      FinalWrapperTags, ForceColorAndWeight)

(***************************************************************************)
(* _process_svg_for_pdf.                                                   *)
(***************************************************************************)
WhiteBackground == <<Decl("background", "white"), EmptyPart>>

\* the passes after the conversion, in the order of the code
style_passes(t) ==
    LET second == ApplyToAll(t, TextTags, apply_dark_text_style)
        third == ApplyToAll(second, {"path"}, apply_dark_stroke_style)
        fourth == ApplyToAll(third, ShapeTags, apply_shape_style)
        fifth == ProcessGroups(fourth, soup_find_all(fourth, {"g"}))
    IN apply_final_text_visibility_fixes(fifth)

\* the tree the call leaves and what it returns: the svg subtree, or the
\* whole parsed document when no svg was found
process_svg_for_pdf(t) ==
    LET svg == find_svg(t)
        white == [t EXCEPT ![svg].style = WhiteBackground]
        after_loops == convert_foreign_objects(white)
    IN IF svg # 0
       THEN [dom |-> style_passes(after_loops),
             converted |-> after_loops,
             class_groups |-> class_groups(white),
             node_parents |-> node_parents(white),
             result |-> [kind |-> "svg", root |-> svg]]
       ELSE [dom |-> t, converted |-> t, class_groups |-> <<>>, node_parents |-> <<>>,
             result |-> [kind |-> "soup", root |-> 0]]

(***************************************************************************)
(* Input documents.  A document is a root, one group element below it and  *)
(* the group's children; a child is a small subtree (an item) whose nodes  *)
(* name their parent relative to the item: 0 is the group, k the item's    *)
(* k-th node.  No foreignObject lies inside another, and widths and        *)
(* heights that parse are even numbers.                                    *)
(***************************************************************************)
ForeignObject(w) ==
    [Node("foreignobject", 0) EXCEPT !.width = w, !.height = Num(DefaultHeight)]

Wrapper(tag, parent, text_content) == [Node(tag, parent) EXCEPT !.text = text_content]

\* <foreignObject width=w height=20><div>text</div></foreignObject>
FoDiv(text_content, w) == <<ForeignObject(w), Wrapper("div", 1, text_content)>>

\* <foreignObject><div><span>Hi</span></div></foreignObject>
FoNested == <<ForeignObject(Num(DefaultWidth)), Node("div", 1), Wrapper("span", 2, tHello)>>

\* <foreignObject><div>Hi</div><div>Animal</div></foreignObject>
FoTwo ==
    <<ForeignObject(Num(DefaultWidth)), Wrapper("div", 1, tHello), Wrapper("div", 1, tAnimal)>>

\* <foreignObject><p> Ok </p></foreignObject>
FoP == <<ForeignObject(Num(DefaultWidth)), Wrapper("p", 1, tPadded)>>

\* <foreignObject x=xv y="8" width="40" height="10"><div>Hi</div></foreignObject>
FoAt(xv) ==
    <<[Node("foreignobject", 0) EXCEPT !.x = xv, !.y = Num(8), !.width = Num(40),
                                        !.height = Num(10)],
      Wrapper("div", 1, tHello)>>

\* <foreignObject><div>Hi</div></foreignObject>
FoBare == <<Node("foreignobject", 0), Wrapper("div", 1, tHello)>>

\* <text style=...>Hi<tspan>Animal</tspan></text>
TextItem(style) ==
    <<[Wrapper("text", 0, tHello) EXCEPT !.style = style], Wrapper("tspan", 1, tAnimal)>>

PathItem == <<[Node("path", 0) EXCEPT !.style = <<Decl("stroke", "red")>>]>>
RectItem == <<Node("rect", 0)>>

GeneralItems ==
    {FoDiv(tx, w) : tx \in {<<>>, tBlank, tHello}, w \in {Num(DefaultWidth), BadNum}}
    \cup {FoNested, FoTwo, FoP, PathItem, RectItem}
    \cup {FoAt(Num(6)), FoAt(BadNum), FoBare}
    \cup {TextItem(st) : st \in {<<>>, <<Decl("fill", "white"), SpDecl("font-weight", "bold")>>}}

ClassMemberTexts == {<<>>, tAnimal, tNameString, tClassName, tFieldType, tMethod}

ClassItems == {FoDiv(tx, Num(DefaultWidth)) : tx \in ClassMemberTexts}

\* role is the svg's aria-roledescription, "" when it has none
SvgRoot(role) == [Node("svg", 0) EXCEPT !.role = role]

\* the root of a parsed document that holds no svg element
HtmlRoot == Node("html", 0)

Group(cls) == [Node("g", 1) EXCEPT !.cls = cls, !.dataid = StrKey("c1")]

RECURSIVE Build(_, _, _)
Build(acc, group, items) ==
    IF items = <<>> THEN acc
    ELSE LET item == Head(items)
             placed == [k \in 1..Len(item) |->
                          [item[k] EXCEPT !.parent =
                              IF @ = 0 THEN group ELSE Len(acc) + @]]
         IN Build(acc \o placed, group, Tail(items))

\* the root, the group as its only child, the items as the group's children
Document(root, g, items) == Build(<<root, g>>, Len(<<root, g>>), items)

ItemLists(itemSet, lo, hi) == UNION {[1..n -> itemSet] : n \in lo..hi}

\* no transform attribute, or transform="translate(10,5)"
GroupTransforms == {<<>>, <<Translate(Num(10), Num(5))>>}

GeneralDocuments ==
    {Document(root, [Group(cls) EXCEPT !.transform = tr], items) :
        root \in {SvgRoot("classDiagram"), SvgRoot("flowchart-v2"), SvgRoot(""), HtmlRoot},
        cls \in {<<sNode, sDefault>>, <<sClassGroup>>, <<sEdgeLabel>>},
        tr \in GroupTransforms,
        items \in ItemLists(GeneralItems, 0, MaxItems)}

ClassDocuments ==
    {Document(SvgRoot("classDiagram"), Group(<<sNode, sDefault>>), items) :
        items \in ItemLists(ClassItems, 1, MaxMembers)}

(***************************************************************************)
(* The normalizer as a state machine: one call of _process_svg_for_pdf on  *)
(* a parsed document.                                                      *)
(***************************************************************************)
NoOp == [f |-> "none", i |-> 0]

StyleIdle == lastOp = NoOp /\ prevOp = NoOp /\ prevDom = <<>> /\ applied = 0

RenderIdle ==
    /\ playwright = "None" /\ browser = "None" /\ rpc = "idle" /\ page = 0
    /\ openPages = {} /\ opened = 0 /\ pending = "none" /\ outcome = "none"
    /\ calls = 0
    /\ held = FALSE
    /\ launched = 0

NoCall == [fn |-> "none"]
NoReturn == [kind |-> "none"]

FnIdle == call = NoCall /\ ret = NoReturn

NoRun == blocks = <<>> /\ replaced = <<>> /\ how = <<>> /\ run = "none" /\ trace = <<>>

InitOn(documents) ==
    /\ dom \in documents
    /\ input = dom
    /\ pc = "parsed"
    /\ result = [kind |-> "none", root |-> 0]
    /\ converted = <<>>
    /\ grouped = <<>>
    /\ parents = <<>>
    /\ StyleIdle
    /\ RenderIdle
    /\ NoRun
    /\ FnIdle

Init == InitOn(GeneralDocuments)

InitClass == InitOn(ClassDocuments)

Normalize ==
    /\ pc = "parsed"
    /\ LET out == process_svg_for_pdf(dom)
       IN /\ dom' = out.dom /\ result' = out.result /\ converted' = out.converted
          /\ grouped' = out.class_groups /\ parents' = out.node_parents
    /\ pc' = "done"
    /\ UNCHANGED <<input, styleVars, renderVars, fnVars>>

Next == Normalize

Spec == Init /\ [][Next]_vars

NextClass == Normalize

(***************************************************************************)
(* Class diagrams of one box whose members differ in text and in width.    *)
(***************************************************************************)
MaxLines == 3        \* members of the box

\* width="100", width="40", no width attribute
LineWidths == {Num(DefaultWidth), Num(40), NoAttr}

LineItems ==
    {FoDiv(tx, w) : tx \in {<<>>, tBlank, tAnimal, tMethod}, w \in LineWidths}

LineDocuments ==
    {Document(SvgRoot("classDiagram"), Group(<<sNode, sDefault>>), items) :
        items \in ItemLists(LineItems, 2, MaxLines)}

InitLines == InitOn(LineDocuments)

NextLines == Normalize

SpecLines == InitLines /\ [][NextLines]_vars

(***************************************************************************)
(* One foreignObject with up to MaxWrappers elements below it, each a      *)
(* child of the foreignObject or of the element before it; alone in a      *)
(* flowchart node, or first of two members of a class box.                 *)
(***************************************************************************)
MaxWrappers == 2

BelowTags == {"span", "p"}

\* "", "Hi", " Ok " and "Animal": two of them are as long once trimmed
BelowTexts == {<<>>, tHello, tPadded, tAnimal}

Below(tags, texts, nested) ==
    [k \in 1..Len(tags) |->
        Wrapper(tags[k], IF k > 1 /\ nested[k] THEN k ELSE 1, texts[k])]

ExtractItems ==
    UNION {{<<[ForeignObject(Num(DefaultWidth)) EXCEPT !.text = own]>>
               \o Below(tags, texts, nested) :
               own \in {<<>>, tHello},
               tags \in [1..n -> BelowTags],
               texts \in [1..n -> BelowTexts],
               nested \in {f \in [1..n -> BOOLEAN] : n > 0 => ~f[1]}} :
           n \in 0..MaxWrappers}

ExtractDocuments ==
    {Document(SvgRoot("flowchart-v2"), Group(<<sNode, sDefault>>), <<item>>) :
        item \in ExtractItems}
    \cup {Document(SvgRoot("classDiagram"), Group(<<sNode, sDefault>>),
                   <<item, FoDiv(tMethod, Num(DefaultWidth))>>) :
             item \in ExtractItems}

InitExtract == InitOn(ExtractDocuments)

NextExtract == Normalize

SpecExtract == InitExtract /\ [][NextExtract]_vars

(***************************************************************************)
(* Documents of several diagram nodes (boxes): each box is a g with a      *)
(* class list and a data-id that holds one or two foreignObjects; the      *)
(* boxes are children of the svg or of one enclosing "node default" g.     *)
(***************************************************************************)
MaxBoxes == 2        \* diagram nodes of a document

BoxClasses == {<<sNode, sDefault>>, <<sNodes, sDefaultStyle>>, <<sClassGroup>>}

\* data-id="c1", no data-id, data-id="individual_2"
BoxIds == {StrKey("c1"), NoKey, IndividualKey(MaxBoxes)}

BoxTexts == {<<tAnimal>>, <<tAnimal, tMethod>>}

Box(cls, id, texts) ==
    Build(<<[Node("g", 0) EXCEPT !.cls = cls, !.dataid = id]>>, 1,
          [k \in 1..Len(texts) |-> FoDiv(texts[k], Num(DefaultWidth))])

Boxes == {Box(cls, id, texts) : cls \in BoxClasses, id \in BoxIds, texts \in BoxTexts}

Outer == [Node("g", 1) EXCEPT !.cls = <<sNode, sDefault>>, !.dataid = StrKey("c0")]

BoxDocument(root, enclosed, boxes) ==
    IF enclosed THEN Build(<<root, Outer>>, Len(<<root, Outer>>), boxes)
    ELSE Build(<<root>>, 1, boxes)

BoxDocuments ==
    {BoxDocument(root, enclosed, boxes) :
        root \in {SvgRoot("classDiagram"), SvgRoot("flowchart-v2")},
        enclosed \in BOOLEAN,
        boxes \in ItemLists(Boxes, 0, MaxBoxes)}

InitGroups == InitOn(BoxDocuments)

NextGroups == Normalize

SpecGroups == InitGroups /\ [][NextGroups]_vars

SpecClass == InitClass /\ [][NextClass]_vars

(***************************************************************************)
(* The style functions on their own: each is applied, in any order and     *)
(* any number of times up to MaxApply, to a small tree whose one element   *)
(* carries an arbitrary style attribute.                                   *)
(***************************************************************************)
StyleParts ==
    {Decl("fill", "white"), SpDecl("fill", "red"), Decl("font-weight", "bold"),
     Decl("font-family", "serif"), Decl("stroke", "red"), Decl("stroke-width", "1px"),
     Decl("-webkit-text-stroke", "1px"), EmptyPart}

\* every style string of up to MaxStyleParts parts; <<>> is the empty string,
\* which <<EmptyPart>> would spell a second time
StyleInputs == ItemLists(StyleParts, 0, MaxStyleParts) \ {<<EmptyPart>>}

StyledElement(tag, style) == <<SvgRoot(""), [Node(tag, 1) EXCEPT !.style = style]>>

\* <svg><foreignObject><div style=...>Hi</div></foreignObject></svg>
StyledForeign(tag, style) ==
    <<SvgRoot(""), [ForeignObject(Num(DefaultWidth)) EXCEPT !.parent = 1],
      [Wrapper(tag, 2, tHello) EXCEPT !.style = style]>>

StyleDocuments ==
    {StyledElement(tag, st) : tag \in {"text", "tspan", "path", "rect", "circle"},
                              st \in StyleInputs}
    \cup {StyledForeign(tag, st) : tag \in {"div", "p"}, st \in StyleInputs}

InitStyle ==
    /\ dom \in StyleDocuments
    /\ input = dom
    /\ pc = "style"
    /\ result = [kind |-> "none", root |-> 0]
    /\ converted = <<>>
    /\ grouped = <<>>
    /\ parents = <<>>
    /\ StyleIdle
    /\ RenderIdle
    /\ NoRun
    /\ FnIdle

Record(op) ==
    /\ pc = "style"
    /\ applied < MaxApply
    /\ applied' = applied + 1
    /\ lastOp' = op
    /\ prevOp' = lastOp
    /\ prevDom' = dom
    /\ UNCHANGED <<input, pc, result, converted, grouped, parents, renderVars, fnVars>>

StyleText ==
    \E i \in 1..Len(dom) :
        /\ dom[i].tag \in TextTags
        /\ dom' = [dom EXCEPT ![i] = apply_dark_text_style(@)]
        /\ Record([f |-> "text", i |-> i])

StylePath ==
    \E i \in 1..Len(dom) :
        /\ dom[i].tag = "path"
        /\ dom' = [dom EXCEPT ![i] = apply_dark_stroke_style(@)]
        /\ Record([f |-> "path", i |-> i])

StyleShape ==
    \E i \in 1..Len(dom) :
        /\ dom[i].tag \in ShapeTags
        /\ dom' = [dom EXCEPT ![i] = apply_shape_style(@)]
        /\ Record([f |-> "shape", i |-> i])

Finalize ==
    /\ dom' = apply_final_text_visibility_fixes(dom)
    /\ Record([f |-> "finalize", i |-> 0])

NextStyle == StyleText \/ StylePath \/ StyleShape \/ Finalize

SpecStyle == InitStyle /\ [][NextStyle]_vars

(***************************************************************************)
(* One run of the export pipeline on one renderer.  The exporter creates   *)
(* a MarkdownProcessor (and with it a MermaidRenderer), and                *)
(* apply_syntax_highlighting replaces the fenced code blocks of the        *)
(* content one after the other; a mermaid block with a body makes one      *)
(* render call (render_mermaid_sync runs render_mermaid_to_svg to its      *)
(* end).  A render call suspends at each await, and every awaited browser  *)
(* operation of the call may fail.  The normalizer's outcome is left open  *)
(* here.  When the exporter returns the renderer is no longer referenced   *)
(* and its finalizer __del__ runs, unless the traceback of a render call   *)
(* that raised still holds it: then the finalizer waits for the garbage    *)
(* collector.                                                              *)
(***************************************************************************)
\* the text of a fenced block between the opening line and the closing fence
tDiagram == <<"A","-","-",">","B","\n">>
tBlankBody == <<" ","\n">>
tSource == <<"x","\n">>

\* a match of the pattern: the language group (None as "") and the code
\* group; known tells whether pygments finds a lexer for the block
Fenced(language, code, known) == [language |-> language, code |-> code, known |-> known]

\* language.lower() on the language names of the model
language_lower(language) == IF language = "Mermaid" THEN "mermaid" ELSE language

\* `language and language.lower() == 'mermaid'`, after `code.strip()` held text
IsMermaid(b) ==
    Strip(b.code) # <<>> /\ b.language # "" /\ language_lower(b.language) = "mermaid"

\* f'```{language or ""}\n{code}```'
KeepFence(b) == [kind |-> "fence", language |-> b.language, code |-> b.code]

\* f'<div class="codehilite">{highlighted}</div>'
Codehilite(b) == [kind |-> "codehilite", language |-> b.language, code |-> b.code]

\* the div around the svg that the render call returned for code.strip()
MermaidDiv(code) == [kind |-> "div", language |-> "mermaid", code |-> Strip(code)]

\* variant: the block is put back as the fence it was
fallback_as_fence(code) == [kind |-> "fence", language |-> "mermaid", code |-> code]

\* f'<pre><code class="language-mermaid">{code}</code></pre>'
mermaid_fallback(code) == [kind |-> "pre", language |-> "mermaid", code |-> code]

\* the block highlight_code is called with next
Current == blocks[Len(replaced) + 1]

InRun == run = "running" /\ rpc = "idle" /\ Len(replaced) < Len(blocks)

\* highlight_code on a block that is not a mermaid diagram
HighlightCode ==
    /\ InRun
    /\ ~IsMermaid(Current)
    /\ replaced' = Append(replaced,
                IF Strip(Current.code) = <<>> THEN KeepFence(Current)
                ELSE IF Current.known THEN Codehilite(Current)
                ELSE KeepFence(Current))
    /\ how' = Append(how, "none")
    /\ UNCHANGED <<blocks, run, held, launched, trace>>
    /\ UNCHANGED <<playwright, browser, rpc, page, openPages, opened, pending,
                   outcome, calls>>
    /\ UNCHANGED <<normVars, styleVars, fnVars>>

\* render_mermaid_sync hands the call's result or exception to highlight_code,
\* which returns the replacement of the block; an exception leaves a
\* reference cycle (exception, traceback, frames) that holds the renderer
EndCall(h) ==
    /\ replaced' = Append(replaced, IF h = "returned" THEN MermaidDiv(Current.code)
                          ELSE mermaid_fallback(Current.code))
    /\ how' = Append(how, h)
    /\ held' = (held \/ h = "raised")

\* `finally: await page.close()`: the pages left open after it, whatever
\* way (h) the try block ended
\* variant: the page is closed only after the try block succeeded
pages_after_success(pages, pg, h) == IF h = "returned" THEN pages \ {pg} ELSE pages

pages_after_finally(pages, pg, h) == pages \ {pg}

StartRender ==
    /\ InRun
    /\ IsMermaid(Current)
    /\ calls < MaxCalls
    /\ calls' = calls + 1
    /\ rpc' = IF playwright = "None" THEN "start_playwright" ELSE "new_page"
    /\ pending' = "none"
    /\ trace' = <<>>
    /\ UNCHANGED <<playwright, browser, page, openPages, opened, outcome>>
    /\ UNCHANGED <<blocks, replaced, how, run, held, launched>>
    /\ UNCHANGED <<normVars, styleVars, fnVars>>

\* a failure outside the try block: the call raises at once
Raise ==
    /\ rpc' = "idle"
    /\ outcome' = "raised"
    /\ pending' = "none"
    /\ trace' = Append(trace, "raise")
    /\ EndCall("raised")

\* self.playwright = await async_playwright().start()
StartPlaywright ==
    /\ rpc = "start_playwright"
    /\ \/ /\ playwright' = "live" /\ rpc' = "launch"
          /\ UNCHANGED <<outcome, pending, trace, replaced, how, held>>
       \/ UNCHANGED playwright /\ Raise
    /\ UNCHANGED <<browser, page, openPages, opened, calls>>
    /\ UNCHANGED <<blocks, run, launched>>
    /\ UNCHANGED <<normVars, styleVars, fnVars>>

\* self.browser = await self.playwright.chromium.launch(...)
Launch ==
    /\ rpc = "launch"
    /\ \/ /\ browser' = "live" /\ rpc' = "new_page" /\ launched' = launched + 1
          /\ UNCHANGED <<outcome, pending, trace, replaced, how, held>>
       \/ UNCHANGED <<browser, launched>> /\ Raise
    /\ UNCHANGED <<playwright, page, openPages, opened, calls>>
    /\ UNCHANGED <<blocks, run>>
    /\ UNCHANGED <<normVars, styleVars, fnVars>>

\* page = await self.browser.new_page()
NewPage ==
    /\ rpc = "new_page"
    /\ \/ /\ browser = "live"
          /\ opened' = opened + 1
          /\ page' = opened + 1
          /\ openPages' = openPages \cup {opened + 1}
          /\ rpc' = "set_content"
          /\ UNCHANGED <<outcome, pending, trace, replaced, how, held>>
       \/ UNCHANGED <<opened, page, openPages>> /\ Raise
    /\ UNCHANGED <<playwright, browser, calls>>
    /\ UNCHANGED <<blocks, run, launched>>
    /\ UNCHANGED <<normVars, styleVars, fnVars>>

\* variant: a failed step is ignored and the call moves on
TryStepIgnoringFailure(here, next) ==
    /\ rpc = here
    /\ rpc' = next
    /\ trace' \in {Append(trace, here), Append(trace, "raise")}
    /\ UNCHANGED pending
    /\ UNCHANGED <<playwright, browser, page, openPages, opened, outcome, calls>>
    /\ UNCHANGED <<blocks, replaced, how, run, held, launched>>
    /\ UNCHANGED <<normVars, styleVars, fnVars>>

\* one awaited step of the try block: it succeeds and the call moves on, or
\* it raises and control passes to the finally clause
TryStep(here, next) ==
    /\ rpc = here
    /\ \/ rpc' = next /\ trace' = Append(trace, here) /\ UNCHANGED pending
       \/ rpc' = "finally" /\ trace' = Append(trace, "raise") /\ pending' = "raised"
    /\ UNCHANGED <<playwright, browser, page, openPages, opened, outcome, calls>>
    /\ UNCHANGED <<blocks, replaced, how, run, held, launched>>
    /\ UNCHANGED <<normVars, styleVars, fnVars>>

\* await page.set_content(html_content)
SetContent ==
    /\ TryStep("set_content", "wait_for_selector")

\* timeout=10000: the wait ends with the marker found or with a TimeoutError
WaitForSelector ==
    /\ TryStep("wait_for_selector", "wait_for_timeout")

\* await page.wait_for_timeout(1000)
WaitForTimeout ==
    /\ TryStep("wait_for_timeout", "evaluate")

\* svg_content is the svg's outerHTML, or null and the call raises
Evaluate ==
    /\ rpc = "evaluate"
    /\ \/ rpc' = "process_svg" /\ trace' = Append(trace, "evaluate") /\ UNCHANGED pending
       \/ rpc' = "finally" /\ trace' = Append(trace, "raise") /\ pending' = "raised"
    /\ UNCHANGED <<playwright, browser, page, openPages, opened, outcome, calls>>
    /\ UNCHANGED <<blocks, replaced, how, run, held, launched>>
    /\ UNCHANGED <<normVars, styleVars, fnVars>>

\* return self._process_svg_for_pdf(svg_content)
ProcessSvg ==
    /\ rpc = "process_svg"
    /\ rpc' = "finally"
    /\ pending' \in {"returned", "raised"}
    /\ UNCHANGED <<playwright, browser, page, openPages, opened, outcome, calls>>
    /\ UNCHANGED <<blocks, replaced, how, run, held, launched, trace>>
    /\ UNCHANGED <<normVars, styleVars, fnVars>>

FinallyClosePage ==
    /\ rpc = "finally"
    /\ openPages' = pages_after_finally(openPages, page, pending)
    /\ page' = 0
    /\ outcome' = pending
    /\ pending' = "none"
    /\ rpc' = "idle"
    /\ trace' = Append(trace, "page_close")
    /\ EndCall(pending)
    /\ UNCHANGED <<playwright, browser, opened, calls>>
    /\ UNCHANGED <<blocks, run, launched>>
    /\ UNCHANGED <<normVars, styleVars, fnVars>>

\* close_browser called on the renderer between two render calls
CloseBrowser ==
    /\ rpc = "idle"
    /\ run = "running"
    /\ playwright # "None" \/ browser # "None"
    /\ browser' = "None"
    /\ playwright' = "None"
    /\ launched' = 0
    /\ UNCHANGED <<rpc, page, openPages, opened, pending, outcome, calls>>
    /\ UNCHANGED <<blocks, replaced, how, run, held, trace>>
    /\ UNCHANGED <<normVars, styleVars, fnVars>>

\* __del__: `if self.browser:` close_browser() is run, which closes the
\* browser and stops playwright; the renderer's two fields afterwards
del_renderer(pw, br) ==
    IF br # "None" THEN [playwright |-> "None", browser |-> "None"]
    ELSE [playwright |-> pw, browser |-> br]

Finalized ==
    LET r == del_renderer(playwright, browser)
    IN playwright' = r.playwright /\ browser' = r.browser

\* the exporter returns: its processor, and with it the renderer, is dropped
EndRun ==
    /\ run = "running"
    /\ rpc = "idle"
    /\ Len(replaced) = Len(blocks)
    /\ run' = "finished"
    /\ IF held THEN UNCHANGED <<playwright, browser>> ELSE Finalized
    /\ UNCHANGED <<rpc, page, openPages, opened, pending, outcome, calls>>
    /\ UNCHANGED <<blocks, replaced, how, held, launched, trace>>
    /\ UNCHANGED <<normVars, styleVars, fnVars>>

\* the garbage collector frees the reference cycles left by raised calls;
\* after the run this releases the renderer, whose finalizer then runs
Collect ==
    /\ held
    /\ held' = FALSE
    /\ IF run = "finished" THEN Finalized ELSE UNCHANGED <<playwright, browser>>
    /\ UNCHANGED <<rpc, page, openPages, opened, pending, outcome, calls>>
    /\ UNCHANGED <<blocks, replaced, how, run, launched, trace>>
    /\ UNCHANGED <<normVars, styleVars, fnVars>>

FencedBlocks ==
    {Fenced("mermaid", tDiagram, FALSE), Fenced("Mermaid", tDiagram, FALSE),
     Fenced("mermaid", tBlankBody, FALSE), Fenced("python", tSource, TRUE),
     Fenced("", tSource, FALSE)}

InitRender ==
    /\ dom = <<>>
    /\ input = <<>>
    /\ pc = "none"
    /\ result = [kind |-> "none", root |-> 0]
    /\ converted = <<>>
    /\ grouped = <<>>
    /\ parents = <<>>
    /\ StyleIdle
    /\ RenderIdle
    /\ FnIdle
    /\ blocks \in ItemLists(FencedBlocks, 1, MaxCalls)
    /\ replaced = <<>>
    /\ how = <<>>
    /\ run = "running"
    /\ trace = <<>>

NextRender ==
    \/ HighlightCode \/ StartRender \/ StartPlaywright \/ Launch \/ NewPage
    \/ SetContent \/ WaitForSelector \/ WaitForTimeout
    \/ Evaluate \/ ProcessSvg \/ FinallyClosePage \/ CloseBrowser
    \/ EndRun \/ Collect

SpecRender == InitRender /\ [][NextRender]_vars

\* run_until_complete drives the call until it is done, and every await of
\* the call ends: with its result, with an error, or when its timeout expires
SpecRenderFair == SpecRender /\ WF_vars(NextRender)

(***************************************************************************)
(* resolve_book_structure_paths (src/src/utils/config_loader.py) called on *)
(* a loaded book structure.  A dict key that may be missing is a record    *)
(* [present, list]; a path is a sequence of characters.                    *)
(***************************************************************************)
MaxSections == 2     \* sections of a book structure
MaxFiles == 2        \* files of one section or subsection

Absent == [present |-> FALSE, list |-> <<>>]
Present(list) == [present |-> TRUE, list |-> list]

\* os.path.isabs
isabs(path) == path # <<>> /\ Head(path) = "/"

\* os.path.join(root, path) for a path that is not absolute
path_join(root, path) ==
    IF root # <<>> /\ root[Len(root)] # "/" THEN root \o <<"/">> \o path
    ELSE root \o path

\* the loop over section['files']
resolved_files(files, source_root) ==
    [k \in 1..Len(files) |->
        IF ~isabs(files[k]) THEN path_join(source_root, files[k]) ELSE files[k]]

\* one iteration of `for section in resolved_structure['sections']`
resolve_section(section, source_root) ==
    IF section.files.present
    THEN [section EXCEPT !.files.list = resolved_files(@, source_root)]
    ELSE section

resolve_book_structure_paths(book_structure, source_root) ==
    IF book_structure.sections.present
    THEN [book_structure EXCEPT !.sections.list =
             [k \in 1..Len(@) |-> resolve_section(@[k], source_root)]]
    ELSE book_structure

tRelative == <<"a">>
tAbsolute == <<"/","b">>
SourceRoots == {<<"/","r">>, <<"/","r","/">>}

FileLists(lo) == ItemLists({tRelative, tAbsolute}, lo, MaxFiles)

Subsection(files) == [files |-> files]

Sections ==
    {[files |-> f, subsections |-> sub] :
        f \in {Absent} \cup {Present(l) : l \in FileLists(0)},
        sub \in {Absent} \cup {Present(<<Subsection(l)>>) : l \in FileLists(MaxFiles)}}

BookStructures ==
    {[sections |-> Absent]}
    \cup {[sections |-> Present(l)] : l \in ItemLists(Sections, 0, MaxSections)}

InitPaths ==
    /\ dom = <<>>
    /\ input = <<>>
    /\ pc = "none"
    /\ result = [kind |-> "none", root |-> 0]
    /\ converted = <<>>
    /\ grouped = <<>>
    /\ parents = <<>>
    /\ StyleIdle
    /\ RenderIdle
    /\ NoRun
    /\ ret = NoReturn
    /\ \E b \in BookStructures, r \in SourceRoots :
          call = [fn |-> "resolve_book_structure_paths", book_structure |-> b,
                  source_root |-> r]

\* the call: book_structure.copy() is shallow, so the sections the function
\* rewrites are those of its argument too
ResolvePaths ==
    /\ call.fn = "resolve_book_structure_paths"
    /\ ret = NoReturn
    /\ LET resolved_structure ==
               resolve_book_structure_paths(call.book_structure, call.source_root)
       IN /\ ret' = [kind |-> "value", v |-> resolved_structure]
          /\ call' = [call EXCEPT !.book_structure = resolved_structure]
    /\ UNCHANGED <<normVars, styleVars, renderVars>>

NextPaths == ResolvePaths

SpecPaths == InitPaths /\ [][NextPaths]_vars

(***************************************************************************)
(* _get_parent_transform called on the innermost element of a chain of     *)
(* ancestors below the svg, each with a transform attribute of its own.    *)
(***************************************************************************)
MaxDepth == 2        \* ancestors between the svg and the element

TransformAttributes ==
    {<<>>,
     <<Translate(Num(10), Num(0))>>,
     <<Translate(Num(0), Num(5))>>,
     <<Translate(Num(3), NoAttr)>>,
     <<Translate(BadNum, NoAttr)>>,
     <<Translate(Num(1), BadNum)>>,
     <<Scale(Num(2)), Translate(Num(10), Num(0))>>,
     <<Translate(Num(10), Num(0)), Translate(Num(1), Num(1))>>}

Ancestors ==
    {[Node(tag, 0) EXCEPT !.transform = tr] :
        tag \in {"g", "a"}, tr \in TransformAttributes}

\* the svg, the ancestors each inside the one before, and the element
Chain(ancestors) ==
    <<SvgRoot("")>>
    \o [k \in 1..Len(ancestors) |-> [ancestors[k] EXCEPT !.parent = k]]
    \o <<Node("foreignobject", Len(ancestors) + 1)>>

TransformDocuments == {Chain(a) : a \in ItemLists(Ancestors, 0, MaxDepth)}

InitTransform ==
    /\ dom \in TransformDocuments
    /\ input = dom
    /\ pc = "none"
    /\ result = [kind |-> "none", root |-> 0]
    /\ converted = <<>>
    /\ grouped = <<>>
    /\ parents = <<>>
    /\ StyleIdle
    /\ RenderIdle
    /\ NoRun
    /\ ret = NoReturn
    /\ call = [fn |-> "_get_parent_transform", element |-> Len(dom)]

GetParentTransform ==
    /\ call.fn = "_get_parent_transform"
    /\ ret = NoReturn
    /\ LET transform_info == get_parent_transform(dom, call.element)
       IN ret' = IF transform_info.ok
                 THEN [kind |-> "value", x |-> transform_info.x, y |-> transform_info.y]
                 ELSE [kind |-> "raise", x |-> 0, y |-> 0]
    /\ UNCHANGED <<call, normVars, styleVars, renderVars>>

NextTransform == GetParentTransform

SpecTransform == InitTransform /\ [][NextTransform]_vars

(***************************************************************************)
(* markdown_processor.py: the two text passes process_markdown runs on a   *)
(* file's content before highlighting.  A content is the list of its lines *)
(* (content.split('\n')), a line a sequence of characters.                 *)
(***************************************************************************)
tDashes == <<"-","-","-">>
tRule == <<"-","-","-","-">>
tSpacedDashes == <<" ","-","-","-"," ">>
tTitleKey == <<"t",":","1">>
tBody == <<" ","B">>

\* s.startswith(prefix)
StartsWith(s, prefix) == Len(s) >= Len(prefix) /\ SubSeq(s, 1, Len(prefix)) = prefix

NonBlank(lines) == {k \in 1..Len(lines) : Strip(lines[k]) # <<>>}

First(ks) == CHOOSE k \in ks : \A m \in ks : k <= m

\* content.strip().startswith('---')
stripped_starts_with_dashes(lines) ==
    /\ NonBlank(lines) # {}
    /\ StartsWith(LStrip(lines[First(NonBlank(lines))]), tDashes)

\* '\n'.join(remaining_lines).lstrip(), split into lines again
join_lstrip(remaining_lines) ==
    IF NonBlank(remaining_lines) = {} THEN <<<<>>>>
    ELSE LET k == First(NonBlank(remaining_lines))
         IN <<LStrip(remaining_lines[k])>>
                \o SubSeq(remaining_lines, k + 1, Len(remaining_lines))

remove_yaml_frontmatter(lines) ==
    IF ~stripped_starts_with_dashes(lines) THEN lines
    ELSE LET closing == {i \in 2..Len(lines) : Strip(lines[i]) = tDashes}
         IN IF closing = {} THEN lines
            ELSE join_lstrip(SubSeq(lines, First(closing) + 1, Len(lines)))

MaxText == 4        \* lines of a content

FrontMatterLines == {tDashes, <<>>, tTitleKey, tBody, tRule, tSpacedDashes}

FrontMatterContents == ItemLists(FrontMatterLines, 1, MaxText)

InitText(fn, contents) ==
    /\ dom = <<>>
    /\ input = <<>>
    /\ pc = "none"
    /\ result = [kind |-> "none", root |-> 0]
    /\ converted = <<>>
    /\ grouped = <<>>
    /\ parents = <<>>
    /\ StyleIdle
    /\ RenderIdle
    /\ NoRun
    /\ ret = NoReturn
    /\ \E content \in contents : call = [fn |-> fn, content |-> content]

InitFrontMatter == InitText("remove_yaml_frontmatter", FrontMatterContents)

RemoveYamlFrontmatter ==
    /\ call.fn = "remove_yaml_frontmatter"
    /\ ret = NoReturn
    /\ ret' = [kind |-> "value", content |-> remove_yaml_frontmatter(call.content)]
    /\ UNCHANGED <<call, normVars, styleVars, renderVars>>

NextFrontMatter == RemoveYamlFrontmatter

SpecFrontMatter == InitFrontMatter /\ [][NextFrontMatter]_vars

\* the backquote, which a TLA+ string cannot hold, is written as "q"
Backquote == "q"
tFence == <<Backquote, Backquote, Backquote>>
tHeading == <<"#"," ","T">>
tDeepHeading == <<"#","#","#","#"," ","T">>
tComment == <<"#","c">>
tIndented == <<" ","#"," ","T">>
tPlain == <<"x">>

RECURSIVE LeadingHashes(_)
LeadingHashes(line) ==
    IF line # <<>> /\ Head(line) = "#" THEN 1 + LeadingHashes(Tail(line)) ELSE 0

Hashes(n) == [k \in 1..n |-> "#"]

adjust_line(line) ==
    IF StartsWith(line, <<"#">>)
    THEN LET heading_level == LeadingHashes(line)
             new_heading_level == IF heading_level + 3 < 6 THEN heading_level + 3 ELSE 6
             heading_text == Strip(SubSeq(line, heading_level + 1, Len(line)))
         IN Hashes(new_heading_level) \o <<" ">> \o heading_text
    ELSE line

adjust_heading_levels(lines) == [k \in 1..Len(lines) |-> adjust_line(lines[k])]

HeadingLines == {tHeading, tDeepHeading, tFence, tComment, tIndented, tPlain}

HeadingContents == ItemLists(HeadingLines, 1, MaxText)

InitHeadings == InitText("adjust_heading_levels", HeadingContents)

AdjustHeadingLevels ==
    /\ call.fn = "adjust_heading_levels"
    /\ ret = NoReturn
    /\ ret' = [kind |-> "value", content |-> adjust_heading_levels(call.content)]
    /\ UNCHANGED <<call, normVars, styleVars, renderVars>>

NextHeadings == AdjustHeadingLevels

SpecHeadings == InitHeadings /\ [][NextHeadings]_vars

(***************************************************************************)
(* main.py: generate_book_structure on the list scan_markdown_files        *)
(* returns.  A path is a string with '/' as os.sep.                        *)
(***************************************************************************)
LowerLetters == <<"a","b","c","d","m","o","s","x">>
UpperLetters == <<"A","B","C","D","M","O","S","X">>

\* the characters of the model's paths and titles in code point order
CodePoints ==
    <<" ","-",".","/","0","1","2","A","B","C","D","M","O","S","X","_",
      "a","b","c","d","m","o","s","x">>

ord(c) == CHOOSE k \in 1..Len(CodePoints) : CodePoints[k] = c

IndexIn(letters, c) == CHOOSE k \in 1..Len(letters) : letters[k] = c

IsLowerLetter(c) == \E k \in 1..Len(LowerLetters) : LowerLetters[k] = c
IsUpperLetter(c) == \E k \in 1..Len(UpperLetters) : UpperLetters[k] = c
IsLetter(c) == IsLowerLetter(c) \/ IsUpperLetter(c)

upper_char(c) == IF IsLowerLetter(c) THEN UpperLetters[IndexIn(LowerLetters, c)] ELSE c
lower_char(c) == IF IsUpperLetter(c) THEN LowerLetters[IndexIn(UpperLetters, c)] ELSE c

\* str.lower()
str_lower(s) == [k \in 1..Len(s) |-> lower_char(s[k])]

\* str.title(): a letter after a non-letter is upper case, the others lower
str_title(s) ==
    [k \in 1..Len(s) |->
        IF k = 1 \/ ~IsLetter(s[k - 1]) THEN upper_char(s[k]) ELSE lower_char(s[k])]

\* str.replace(old, new) on single characters
str_replace(s, old, new) == [k \in 1..Len(s) |-> IF s[k] = old THEN new ELSE s[k]]

\* s.split(sep, maxsplit); maxsplit = -1 splits at every sep
RECURSIVE str_split(_, _, _)
str_split(s, sep, maxsplit) ==
    LET ks == {k \in 1..Len(s) : s[k] = sep}
    IN IF maxsplit = 0 \/ ks = {} THEN <<s>>
       ELSE <<SubSeq(s, 1, First(ks) - 1)>>
                \o str_split(SubSeq(s, First(ks) + 1, Len(s)), sep,
                             IF maxsplit < 0 THEN maxsplit ELSE maxsplit - 1)

IsDigit(c) == c \in {"0", "1", "2"}

\* re.split('([0-9]+)', text): text, digits, text, ..., text
RECURSIVE split_digits(_)
split_digits(text) ==
    LET ds == {k \in 1..Len(text) : IsDigit(text[k])}
    IN IF ds = {} THEN <<text>>
       ELSE LET a == First(ds)
                ends == {k \in a..Len(text) : \A m \in a..k : IsDigit(text[m])}
                b == CHOOSE k \in ends : \A m \in ends : m <= k
            IN <<SubSeq(text, 1, a - 1), SubSeq(text, a, b)>>
                   \o split_digits(SubSeq(text, b + 1, Len(text)))

\* to_int(text) of a run of digits
RECURSIVE to_int(_)
to_int(digits) ==
    IF digits = <<>> THEN 0
    ELSE 10 * to_int(SubSeq(digits, 1, Len(digits) - 1)) + (ord(digits[Len(digits)]) - ord("0"))

\* text.isdigit()
isdigit(text) == text # <<>> /\ \A k \in 1..Len(text) : IsDigit(text[k])

convert(text) ==
    IF isdigit(text) THEN [num |-> TRUE, n |-> to_int(text), s |-> <<>>]
    ELSE [num |-> FALSE, n |-> 0, s |-> str_lower(text)]

natural_sort_key(text) ==
    LET pieces == split_digits(text)
    IN [k \in 1..Len(pieces) |-> convert(pieces[k])]

\* a < b on strings: by code point, a proper prefix first
RECURSIVE str_less(_, _)
str_less(a, b) ==
    IF b = <<>> THEN FALSE
    ELSE IF a = <<>> THEN TRUE
    ELSE IF Head(a) # Head(b) THEN ord(Head(a)) < ord(Head(b))
    ELSE str_less(Tail(a), Tail(b))

\* a < b on the items of a key: ints among themselves, strings likewise (the
\* pieces of re.split alternate, so equal positions hold equal types)
item_less(a, b) == IF a.num /\ b.num THEN a.n < b.n ELSE str_less(a.s, b.s)

\* a < b on lists
RECURSIVE key_less(_, _)
key_less(a, b) ==
    IF b = <<>> THEN FALSE
    ELSE IF a = <<>> THEN TRUE
    ELSE IF Head(a) # Head(b) THEN item_less(Head(a), Head(b))
    ELSE key_less(Tail(a), Tail(b))

\* sorted(pairs, key=lambda x: natural_sort_key(x.k)): stable
RECURSIVE sorted_natural(_)
sorted_natural(pairs) ==
    IF pairs = <<>> THEN <<>>
    ELSE LET done == sorted_natural(SubSeq(pairs, 1, Len(pairs) - 1))
             last == pairs[Len(pairs)]
             before == Cardinality({k \in 1..Len(done) :
                          ~key_less(natural_sort_key(last.k), natural_sort_key(done[k].k))})
         IN SubSeq(done, 1, before) \o <<last>> \o SubSeq(done, before + 1, Len(done))

\* sorted(files, key=natural_sort_key)
sorted_files(files) ==
    LET pairs == sorted_natural([k \in 1..Len(files) |-> [k |-> files[k], v |-> files[k]]])
    IN [k \in 1..Len(pairs) |-> pairs[k].v]

\* the order number and title of a major section directory
major_of(major_section_dir) ==
    LET major_parts == str_split(major_section_dir, "-", 1)
    IN IF Len(major_parts) >= 2
       THEN [order |-> major_parts[1],
             title |-> str_title(str_replace(major_parts[2], "-", " "))]
       ELSE [order |-> <<>>, title |-> str_title(str_replace(major_section_dir, "-", " "))]

\* the order number and title of a minor section directory
minor_of(minor_section_dir) ==
    LET minor_parts == str_split(minor_section_dir, "-", 2)
    IN IF Len(minor_parts) >= 3
       THEN [order |-> minor_parts[2],
             title |-> str_title(str_replace(minor_parts[3], "-", " "))]
       ELSE [order |-> <<>>, title |-> str_title(str_replace(minor_section_dir, "-", " "))]

\* f"{order}_{title}" if order else title
key_of(info) == IF info.order # <<>> THEN info.order \o <<"_">> \o info.title ELSE info.title

\* the position of a key in a dict kept as the list of its items (0: absent)
Position(items, key) ==
    IF \E k \in 1..Len(items) : items[k].k = key
    THEN CHOOSE k \in 1..Len(items) : items[k].k = key
    ELSE 0

\* d[key] = value
Put(items, key, value) ==
    IF Position(items, key) = 0 THEN Append(items, [k |-> key, v |-> value])
    ELSE [items EXCEPT ![Position(items, key)].v = value]

\* d[key] after `if key not in d: d[key] = fresh`
Get(items, key, fresh) == IF Position(items, key) = 0 THEN fresh ELSE items[Position(items, key)].v

empty_section(major) ==
    [title |-> major.title, order |-> major.order, subsections |-> <<>>,
     has_direct_files |-> FALSE, direct_files |-> <<>>]

empty_subsection(minor) == [title |-> minor.title, order |-> minor.order, files |-> <<>>]

\* one turn of the loop over markdown_files
add_file(sections, file_path) ==
    LET parts == str_split(file_path, "/", -1)
    IN IF Len(parts) >= 3 /\ parts[1] = <<"d","o","c","s">>
       THEN LET major == major_of(parts[2])
                section == Get(sections, key_of(major), empty_section(major))
            IN IF Len(parts) >= 4 /\ minor_of(parts[3]).title # <<>>
               THEN LET minor == minor_of(parts[3])
                        sub == Get(section.subsections, key_of(minor), empty_subsection(minor))
                    IN Put(sections, key_of(major),
                           [section EXCEPT !.subsections =
                               Put(@, key_of(minor),
                                   [sub EXCEPT !.files = Append(@, file_path)])])
               ELSE Put(sections, key_of(major),
                        [section EXCEPT !.has_direct_files = TRUE,
                                        !.direct_files = Append(@, file_path)])
       ELSE sections

RECURSIVE collect_sections(_, _)
collect_sections(sections, markdown_files) ==
    IF markdown_files = <<>> THEN sections
    ELSE collect_sections(add_file(sections, Head(markdown_files)), Tail(markdown_files))

subsection_data(item) == [title |-> item.v.title, files |-> sorted_files(item.v.files)]

section_data(item) ==
    LET sorted_subsections == sorted_natural(item.v.subsections)
    IN [title |-> item.v.title,
        has_files |-> item.v.has_direct_files,
        files |-> sorted_files(item.v.direct_files),
        subsections |-> [k \in 1..Len(sorted_subsections) |->
                            subsection_data(sorted_subsections[k])]]

generate_book_structure(markdown_files) ==
    LET sorted_sections == sorted_natural(collect_sections(<<>>, markdown_files))
    IN [sections |-> [k \in 1..Len(sorted_sections) |-> section_data(sorted_sections[k])]]

MaxScanned == 4      \* markdown files found under docs/

\* docs/10-b/x.md
pTen == <<"d","o","c","s","/","1","0","-","b","/","x",".","m","d">>
\* docs/2-A/x.md
pUpper == <<"d","o","c","s","/","2","-","A","/","x",".","m","d">>
\* docs/2-a/1-1-b/c/x.md
pDeep == <<"d","o","c","s","/","2","-","a","/","1","-","1","-","b","/","c","/","x",".","m","d">>
\* docs/2-a/1-1-b/x.md
pSub == <<"d","o","c","s","/","2","-","a","/","1","-","1","-","b","/","x",".","m","d">>
\* docs/2-a/b/x.md
pPlainSub == <<"d","o","c","s","/","2","-","a","/","b","/","x",".","m","d">>
\* docs/2-a/x.md
pDirect == <<"d","o","c","s","/","2","-","a","/","x",".","m","d">>
\* docs/a.md
pTop == <<"d","o","c","s","/","a",".","m","d">>
\* docs/b/a-b/x.md
pPlain == <<"d","o","c","s","/","b","/","a","-","b","/","x",".","m","d">>

\* the files a scan can find, as sorted(markdown_files) orders them
ScannedPaths == <<pTen, pUpper, pDeep, pSub, pPlainSub, pDirect, pTop, pPlain>>

\* what scan_markdown_files can return: up to MaxScanned of the files, sorted
ScannedLists ==
    {SelectSeq(ScannedPaths, LAMBDA p : p \in chosen) :
        chosen \in {c \in SUBSET {ScannedPaths[k] : k \in 1..Len(ScannedPaths)} :
                       Cardinality(c) <= MaxScanned}}

InitBook ==
    /\ dom = <<>>
    /\ input = <<>>
    /\ pc = "none"
    /\ result = [kind |-> "none", root |-> 0]
    /\ converted = <<>>
    /\ grouped = <<>>
    /\ parents = <<>>
    /\ StyleIdle
    /\ RenderIdle
    /\ NoRun
    /\ ret = NoReturn
    /\ \E markdown_files \in ScannedLists :
          call = [fn |-> "generate_book_structure", markdown_files |-> markdown_files]

GenerateBookStructure ==
    /\ call.fn = "generate_book_structure"
    /\ ret = NoReturn
    /\ ret' = [kind |-> "value", book_structure |-> generate_book_structure(call.markdown_files)]
    /\ UNCHANGED <<call, normVars, styleVars, renderVars>>

NextBook == GenerateBookStructure

SpecBook == InitBook /\ [][NextBook]_vars

(***************************************************************************)
(* Properties.                                                             *)
(***************************************************************************)
\* the elements with one of the tags that the returned string holds, in
\* document order: str(svg) serializes the svg element and its subtree
Returned(t, res, tags) ==
    SelectSeq(Indices(t),
              LAMBDA j : /\ t[j].alive
                         /\ t[j].tag \in tags
                         /\ res.kind = "svg" => (j = res.root \/ IsAncestor(t, res.root, j)))

\* the elements of a tree with one of the tags, in document order
Elements(t, tags) == SelectSeq(Indices(t), LAMBDA j : t[j].alive /\ t[j].tag \in tags)

HasDecl(style, prop) == \E k \in 1..Len(style) : style[k].prop = prop

\* the value a style attribute gives a property: that of its last declaration
\* of the property ("" when it has none)
StyleValue(style, prop) ==
    LET ks == {k \in 1..Len(style) : style[k].prop = prop}
    IN IF ks = {} THEN ""
       ELSE style[CHOOSE k \in ks : \A m \in ks : m <= k].val

FontWeight(n) == StyleValue(n.style, "font-weight")

NormalizedSvg == pc = "done" /\ result.kind = "svg"

InputForeignObjects == {i \in 1..Len(input) : input[i].tag = "foreignobject"}

\* the text elements of a tree that replace the input's foreignObject i
TextsFrom(t, i) ==
    {j \in 1..Len(t) : t[j].alive /\ t[j].tag = "text" /\ t[j].orig = i}

MemberDocument(texts) ==
    Document(SvgRoot("classDiagram"), Group(<<sNode, sDefault>>),
             [k \in 1..Len(texts) |-> FoDiv(texts[k], Num(DefaultWidth))])

ExampleDocument == MemberDocument(<<<<>>, tAnimal, tNameString>>)

ClassNameDocument == MemberDocument(<<<<>>, tClassName, tFieldType, tMethod>>)

\* C1: normalizing the class diagram whose one "node default" group holds the
\* members "", "Animal", "+name: string" returns an svg with no foreignObject
\* and exactly two text elements: Animal, whose style makes it bold, then
\* "+name: string", whose style gives it the regular weight 500, 16 below.
C1_EndToEnd ==
    (pc = "done" /\ input = ExampleDocument) =>
        LET texts == Returned(dom, result, {"text"})
        IN /\ result.kind = "svg"
           /\ Returned(dom, result, {"foreignobject"}) = <<>>
           /\ Len(texts) = 2
           /\ dom[texts[1]].text = tAnimal
           /\ FontWeight(dom[texts[1]]) = "bold"
           /\ dom[texts[2]].text = tNameString
           /\ FontWeight(dom[texts[2]]) = "500"
           /\ dom[texts[2]].y.n = dom[texts[1]].y.n + 16

\* what the conversion loop emits for the members "", ClassName,
\* "+field: Type", "+method()": three text elements, ClassName as a bold
\* title and the two other lines at regular weight, at the y offsets ys
EmitsClassNameLines(ys) ==
    (pc = "done" /\ input = ClassNameDocument) =>
        LET texts == Elements(converted, {"text"})
        IN /\ Len(texts) = 3
           /\ Elements(converted, {"foreignobject"}) = <<>>
           /\ converted[texts[1]].text = tClassName
           /\ FontWeight(converted[texts[1]]) = "bold"
           /\ converted[texts[2]].text = tFieldType
           /\ FontWeight(converted[texts[2]]) = "500"
           /\ converted[texts[3]].text = tMethod
           /\ FontWeight(converted[texts[3]]) = "500"
           /\ [k \in 1..3 |-> converted[texts[k]].y.n] = ys

C3_NoSilentDrop ==
    NormalizedSvg =>
        \A i \in InputForeignObjects :
            extract_text(input, i) # <<>> =>
                \/ \E j \in TextsFrom(dom, i) : dom[j].text = extract_text(input, i)
                \/ dom[i].alive /\ dom[i].tag = "foreignobject"

\* C4: in a diagram that is not a class diagram every input foreignObject is
\* replaced by at most one text element, and by none when its extracted text
\* is empty.
C4_AtMostOneText ==
    (NormalizedSvg /\ input[result.root].role # "classDiagram") =>
        \A i \in InputForeignObjects :
            /\ Cardinality(TextsFrom(dom, i)) <= 1
            /\ extract_text(input, i) = <<>> => TextsFrom(dom, i) = {}

C4_Witness ==
    /\ NormalizedSvg
    /\ input[result.root].role # "classDiagram"
    /\ \E i \in InputForeignObjects : Cardinality(TextsFrom(dom, i)) = 1
    /\ \E i \in InputForeignObjects :
          extract_text(input, i) = <<>> /\ TextsFrom(dom, i) = {}

\* C5: in the svg a normalization returns, every text and tspan element has
\* the attribute fill = #111827 and a style attribute with a fill, a
\* font-weight and a font-family declaration.
C5_TextStyled ==
    NormalizedSvg =>
        \A k \in 1..Len(Returned(dom, result, {"text", "tspan"})) :
            LET n == dom[Returned(dom, result, {"text", "tspan"})[k]]
            IN /\ n.fill = "#111827"
               /\ HasDecl(n.style, "fill")
               /\ HasDecl(n.style, "font-weight")
               /\ HasDecl(n.style, "font-family")

C5_Witness ==
    /\ NormalizedSvg
    /\ \E j \in 1..Len(dom) : dom[j].alive /\ dom[j].tag = "text" /\ dom[j].orig # 0
    /\ \E j \in 1..Len(dom) : dom[j].alive /\ dom[j].tag = "tspan" /\ input[j].style = <<>>

Styles(t) == [j \in 1..Len(t) |-> t[j].style]

\* C6: the finalizer is idempotent: run twice in a row on any tree, the second
\* run leaves every element's style attribute as the first run left it.
C6_FinalizeIdempotent ==
    (lastOp.f = "finalize" /\ prevOp.f = "finalize") => Styles(dom) = Styles(prevDom)

\* C7: each style applicator (text, path, shape) is idempotent: applied twice
\* in a row to an element, the second application leaves the element's style
\* and fill attributes as the first left them.
C7_ApplicatorsIdempotent ==
    (lastOp.f \in {"text", "path", "shape"} /\ prevOp = lastOp) =>
        /\ dom[lastOp.i].style = prevDom[lastOp.i].style
        /\ dom[lastOp.i].fill = prevDom[lastOp.i].fill

NoSvgIn(t) == \A j \in 1..Len(t) : t[j].tag # "svg"

\* C8: when the input holds no svg element the normalizer returns the parsed
\* document as it is: the whole document is serialized and no conversion or
\* styling pass has touched it.
C8_NoSvgUntouched ==
    (pc = "done" /\ NoSvgIn(input)) => (result.kind = "soup" /\ dom = input)

C8_Witness ==
    /\ pc = "done"
    /\ NoSvgIn(input)
    /\ \E j \in 1..Len(input) : input[j].tag = "foreignobject"
    /\ \E j \in 1..Len(input) : input[j].tag = "text"

Structure(t) ==
    [j \in 1..Len(t) |->
        [tag |-> t[j].tag, parent |-> t[j].parent, text |-> t[j].text,
         alive |-> t[j].alive]]

\* C9: normalizing a tree without foreignObject elements adds no element,
\* removes none and changes no element's tag, parent, position or text.
C9_StructureKept ==
    (NormalizedSvg /\ InputForeignObjects = {}) => Structure(dom) = Structure(input)

C9_Witness ==
    /\ NormalizedSvg
    /\ InputForeignObjects = {}
    /\ \E j \in 1..Len(input) : input[j].tag = "text" /\ dom[j].style # input[j].style
    /\ \E j \in 1..Len(input) : input[j].tag = "path"

\* C10: after a render call has returned or raised, no page is open.
C10_PagesClosed == rpc = "idle" => openPages = {}

C10_Witness ==
    /\ rpc = "idle"
    /\ outcome = "raised"
    /\ calls >= 2
    /\ opened = calls
    /\ openPages = {}

\* the browser is created lazily: none exists before the first render call
BrowserLazy == calls = 0 => (browser = "None" /\ playwright = "None")

\* between two closes the renderer launches at most one browser
LaunchedOnce == launched <= 1 /\ (browser = "live" => launched = 1)

\* after the run no browser is open
ClosedAfterRun == run = "finished" => browser = "None"

\* C11: the browser is created lazily by the first render call, is launched
\* at most once until it is closed, and once the run has finished no browser
\* remains open.
C11_BrowserLifecycle == BrowserLazy /\ LaunchedOnce /\ ClosedAfterRun

\* C12: every mermaid block with a body is replaced, whatever its render call
\* did: by the div around the svg when the call returned, and by the pre/code
\* block of its original source when the call raised; the blocks after it are
\* then processed in turn.
C12_Fallback ==
    /\ Len(how) = Len(replaced)
    /\ \A k \in 1..Len(replaced) :
          IsMermaid(blocks[k]) =>
              /\ how[k] \in {"returned", "raised"}
              /\ how[k] = "raised" =>
                    replaced[k] = [kind |-> "pre", language |-> "mermaid",
                                   code |-> blocks[k].code]
              /\ how[k] = "returned" =>
                    replaced[k] = [kind |-> "div", language |-> "mermaid",
                                   code |-> Strip(blocks[k].code)]
    /\ (run = "running" /\ rpc = "idle" /\ outcome = "raised") =>
          (Len(replaced) = Len(blocks) \/ InRun)

C12_Witness ==
    \E k \in 1..Len(replaced) :
        /\ how[k] = "raised"
        /\ replaced[k].kind = "pre"
        /\ \E m \in (k + 1)..Len(replaced) : how[m] = "returned" /\ replaced[m].kind = "div"

Occurs(step) == \E k \in 1..Len(trace) : trace[k] = step

\* the order of the steps of a render call
StepsInOrder ==
    /\ Occurs("evaluate") =>
          SubSeq(trace, 1, 4) =
              <<"set_content", "wait_for_selector", "wait_for_timeout", "evaluate">>
    /\ (Len(trace) >= 2 /\ trace[1] = "set_content" /\ trace[2] = "raise") =>
          /\ ~Occurs("evaluate")
          /\ rpc \in {"finally", "idle"}
          /\ rpc = "idle" => outcome = "raised"
    /\ \A k \in 1..Len(trace) : trace[k] = "page_close" => (k = Len(trace) /\ rpc = "idle")
    /\ (rpc = "idle" /\ Occurs("evaluate")) => trace[Len(trace)] = "page_close"

\* a call that waits for the ready marker comes to its end
WaitEnds == (rpc = "wait_for_selector") ~> (rpc = "idle")

\* C13: in a render call the svg is read back only after set_content, the
\* wait for the ready marker and the settling delay have succeeded in that
\* order; when the wait for the marker fails the svg is never read back and
\* the call ends raising (it does not hang); the page is closed last, after
\* the read-back.
C13_RenderOrdering == []StepsInOrder /\ WaitEnds

C13_Witness ==
    /\ rpc = "idle"
    /\ calls >= 2
    /\ trace = <<"set_content", "raise", "page_close">>
    /\ \E k \in 1..Len(how) : how[k] = "returned"

AllAbsolute(files) == \A k \in 1..Len(files) : isabs(files[k])

\* every path of the files list of every section is absolute
SectionFilesAbsolute(book_structure) ==
    \A k \in 1..Len(book_structure.sections.list) :
        AllAbsolute(book_structure.sections.list[k].files.list)

\* every path of the files list of every subsection is absolute
SubsectionFilesAbsolute(book_structure) ==
    \A k \in 1..Len(book_structure.sections.list) :
        \A m \in 1..Len(book_structure.sections.list[k].subsections.list) :
            AllAbsolute(book_structure.sections.list[k].subsections.list[m].files)

\* the part of C14 about the sections' own files
SectionPathsResolved == ret.kind = "value" => SectionFilesAbsolute(ret.v)

\* C14: in the structure resolve_book_structure_paths returns for an absolute
\* source_root, every path in the files list of every section and of every
\* subsection is absolute.
C14_PathsAbsolute ==
    ret.kind = "value" => (SectionFilesAbsolute(ret.v) /\ SubsectionFilesAbsolute(ret.v))

\* the ancestors of node i below the root svg, nearest first
RECURSIVE AncestorsBelowSvg(_, _)
AncestorsBelowSvg(t, p) ==
    IF p = 0 \/ t[p].tag = "svg" THEN <<>>
    ELSE <<p>> \o AncestorsBelowSvg(t, t[p].parent)

WellFormed(f) == f.a.k = "num" /\ f.b.k \in {"none", "num"}

\* the sum of translate functions fs, a left-out y counting as 0
RECURSIVE SumTranslates(_)
SumTranslates(fs) ==
    IF fs = <<>> THEN [x |-> 0, y |-> 0]
    ELSE LET rest == SumTranslates(Tail(fs))
         IN [x |-> Head(fs).a.n + rest.x, y |-> Head(fs).b.n + rest.y]

\* every well-formed translate function on the ancestors as of node i
RECURSIVE TranslatesOn(_, _)
TranslatesOn(t, ps) ==
    IF ps = <<>> THEN <<>>
    ELSE SelectSeq(t[Head(ps)].transform,
                   LAMBDA f : f.fn = "translate" /\ WellFormed(f))
         \o TranslatesOn(t, Tail(ps))

AccumulatedTranslation(t, i) == SumTranslates(TranslatesOn(t, AncestorsBelowSvg(t, t[i].parent)))

Returns(fn) == call.fn = fn /\ ret # NoReturn

NoMalformedTranslate(t) ==
    \A j \in 1..Len(t) : \A k \in 1..Len(t[j].transform) :
        t[j].transform[k].fn = "translate" => WellFormed(t[j].transform[k])

\* at most one translate per attribute, and g ancestors only
OneTranslateOnGroups(t) ==
    \A j \in 1..Len(t) :
        /\ t[j].transform # <<>> => t[j].tag = "g"
        /\ Len(SelectSeq(t[j].transform, LAMBDA f : f.fn = "translate")) <= 1

\* translate(10,0) nested inside translate(0,5)
NestedExample ==
    Chain(<<[Node("g", 0) EXCEPT !.transform = <<Translate(Num(0), Num(5))>>],
            [Node("g", 0) EXCEPT !.transform = <<Translate(Num(10), Num(0))>>]>>)

\* the example of C18: the nested translates yield (10,5)
NestedYields ==
    (Returns("_get_parent_transform") /\ dom = NestedExample) =>
        ret = [kind |-> "value", x |-> 10, y |-> 5]

\* C18: when every translate argument is a number, _get_parent_transform
\* returns the sum of every translate function of every ancestor below the
\* root svg (y = 0 when left out), non-translate functions ignored.
C18_SumOfTranslates ==
    (Returns("_get_parent_transform") /\ NoMalformedTranslate(dom)) =>
        ret = [kind |-> "value", x |-> AccumulatedTranslation(dom, call.element).x,
               y |-> AccumulatedTranslation(dom, call.element).y]

\* C19: _get_parent_transform never raises: a translate function with a
\* malformed argument contributes (0,0) and the translates of the other
\* ancestors are still summed (stated for g ancestors with one translate
\* each).
C19_MalformedIgnored ==
    (Returns("_get_parent_transform") /\ OneTranslateOnGroups(dom)) =>
        ret = [kind |-> "value", x |-> AccumulatedTranslation(dom, call.element).x,
               y |-> AccumulatedTranslation(dom, call.element).y]

\* C19 without the malformed arguments: what the function returns for g
\* ancestors with at most one translate each, all well formed
WellFormedSummed ==
    (Returns("_get_parent_transform") /\ OneTranslateOnGroups(dom)
        /\ NoMalformedTranslate(dom)) =>
        ret = [kind |-> "value", x |-> AccumulatedTranslation(dom, call.element).x,
               y |-> AccumulatedTranslation(dom, call.element).y]

IsClassDiagram == input[result.root].role = "classDiagram"

\* where foreignObject fo occurs in class_groups: <<group, position>> pairs
PlacesOf(fo) ==
    {km \in (1..Len(grouped)) \X (1..Len(input)) :
        km[2] <= Len(grouped[km[1]].objs) /\ grouped[km[1]].objs[km[2]] = fo}

\* the node_parent the grouping loop found for foreignObject fo (0: None)
ParentFound(fo) ==
    LET ks == {k \in 1..Len(parents) : parents[k].fo = fo}
    IN parents[CHOOSE k \in ks : TRUE].node_parent

SameGroup(fo, other) ==
    \E k \in 1..Len(grouped) :
        /\ \E m \in 1..Len(grouped[k].objs) : grouped[k].objs[m] = fo
        /\ \E m \in 1..Len(grouped[k].objs) : grouped[k].objs[m] = other

\* the grouping is the partition the claim describes
Partition ==
    \A fo \in InputForeignObjects :
        /\ Cardinality(PlacesOf(fo)) = 1
        /\ \A other \in InputForeignObjects \ {fo} :
              SameGroup(fo, other) =>
                  /\ IsClassDiagram
                  /\ ParentFound(fo) # 0
                  /\ ParentFound(other) # 0
                  /\ GroupId(input[ParentFound(fo)]) = GroupId(input[ParentFound(other)])
        /\ (~IsClassDiagram \/ ParentFound(fo) = 0) =>
              \A other \in InputForeignObjects \ {fo} : ~SameGroup(fo, other)

\* no data-id of the input has the form individual_N
NoIndividualId == \A j \in 1..Len(input) : input[j].dataid.kind # "individual"

\* the partition holds when no data-id looks like a synthesized key
PartitionWithoutCollision == (NormalizedSvg /\ NoIndividualId) => Partition

\* C15: every input foreignObject is in exactly one group; two are in the
\* same group only in a class diagram and when their group ancestors have
\* the same key (data-id, or class_unknown); in any other diagram, or
\* without a group ancestor, a foreignObject is a group of its own.
C15_Partition == NormalizedSvg => Partition

\* the y of the text element that replaces foreignObject fo, in a set
YOf(fo) == {converted[j].y.n : j \in TextsFrom(converted, fo)}

\* groups in the document order of their first member, members in document
\* order, and in a class box of several members increasing y down the box
DocumentOrder ==
    /\ \A k \in 1..Len(grouped) : \A m \in 1..Len(grouped) :
          k < m => grouped[k].objs[1] < grouped[m].objs[1]
    /\ \A k \in 1..Len(grouped) :
          \A a \in 1..Len(grouped[k].objs) : \A b \in 1..Len(grouped[k].objs) :
              a < b =>
                  /\ grouped[k].objs[a] < grouped[k].objs[b]
                  /\ IsClassDiagram =>
                        \A ya \in YOf(grouped[k].objs[a]) :
                            \A yb \in YOf(grouped[k].objs[b]) : ya < yb

OrderWithoutCollision == (NormalizedSvg /\ NoIndividualId) => DocumentOrder

\* C16: groups are converted in the document order of their first
\* foreignObject, members keep document order, and the text lines of a
\* class box of several members have strictly increasing y in that order.
C16_DocumentOrder == NormalizedSvg => DocumentOrder

\* the nearest ancestor below the svg whose class list holds the token node
\* and the token default; 0 when there is none
RECURSIVE TokenAncestorFrom(_, _)
TokenAncestorFrom(t, p) ==
    IF p = 0 \/ t[p].tag = "svg" THEN 0
    ELSE IF /\ \E k \in 1..Len(t[p].cls) : t[p].cls[k] = <<"n","o","d","e">>
            /\ \E k \in 1..Len(t[p].cls) : t[p].cls[k] = <<"d","e","f","a","u","l","t">>
         THEN p
         ELSE TokenAncestorFrom(t, t[p].parent)

TokenMatch ==
    \A k \in 1..Len(parents) :
        parents[k].node_parent = TokenAncestorFrom(input, input[parents[k].fo].parent)

\* every class name of the input that holds "node" or "default" is that token
OnlyExactTokens ==
    \A j \in 1..Len(input) : \A k \in 1..Len(input[j].cls) :
        (Contains(input[j].cls[k], <<"n","o","d","e">>)
            \/ Contains(input[j].cls[k], <<"d","e","f","a","u","l","t">>))
        => input[j].cls[k] \in {<<"n","o","d","e">>, <<"d","e","f","a","u","l","t">>}

NearestWithExactTokens == (NormalizedSvg /\ OnlyExactTokens) => TokenMatch

\* C17: the group ancestor found for a foreignObject is its nearest ancestor
\* below the svg whose class list holds both the token node and the token
\* default; a class list that holds them only inside other tokens (nodes
\* defaultStyle) is not selected.
C17_ExactTokens == NormalizedSvg => TokenMatch

\* a foreignObject the loop converts on its own, with text to show and
\* geometry attributes that are numbers or missing
PlacedAlone(fo) ==
    /\ \E k \in 1..Len(grouped) : grouped[k].objs = <<fo>>
    /\ extract_text(input, fo) # <<>>
    /\ \A a \in {input[fo].x, input[fo].y, input[fo].width, input[fo].height} :
          a.k \in {"none", "num"}

\* where C20 places the text that replaces foreignObject fo
StatedPosition(fo) ==
    LET xv == IF input[fo].x.k = "num" THEN input[fo].x.n ELSE 0
        yv == IF input[fo].y.k = "num" THEN input[fo].y.n ELSE 0
        wv == IF input[fo].width.k = "num" THEN input[fo].width.n ELSE 100
        hv == IF input[fo].height.k = "num" THEN input[fo].height.n ELSE 20
        shift == AccumulatedTranslation(input, fo)
    IN IF Contains(JoinSpace(input[input[fo].parent].cls), <<"c","l","a","s","s","G","r","o","u","p">>)
       THEN [x |-> xv + shift.x + (wv \div 2), y |-> yv + shift.y + (hv \div 2) + 4]
       ELSE [x |-> wv \div 2, y |-> (hv \div 2) + 4]

PlacedAsStated ==
    \A fo \in InputForeignObjects :
        PlacedAlone(fo) =>
            /\ TextsFrom(converted, fo) # {}
            /\ \A j \in TextsFrom(converted, fo) :
                  [x |-> converted[j].x.n, y |-> converted[j].y.n] = StatedPosition(fo)

NoTransformIn(t) == \A j \in 1..Len(t) : t[j].transform = <<>>

\* the position rule holds when no ancestor carries a transform
PlacedWithoutTransform == (NormalizedSvg /\ NoTransformIn(input)) => PlacedAsStated

\* C20: the text that replaces a foreignObject converted on its own is placed
\* at (X + width/2, Y + height/2 + 4), (X, Y) being the foreignObject's
\* (x, y) plus the accumulated translation of its ancestors, when the nearest
\* ancestor's class list contains classGroup, and at (width/2, height/2 + 4)
\* otherwise; missing x and y count as 0, missing width and height as 100
\* and 20.
C20_Position == NormalizedSvg => PlacedAsStated

\* the members of the one class box of the input, in document order
Members == SelectSeq(Indices(input), LAMBDA j : input[j].tag = "foreignobject")

\* the width attribute of an input element as the converters read it
WidthOf(j) == IF input[j].width.k = "num" THEN input[j].width.n ELSE 100

SharedCentre ==
    \A k \in 1..Len(Members) :
        \A j \in TextsFrom(converted, Members[k]) :
            converted[j].x.n = WidthOf(Members[1]) \div 2

EqualWidths == \A k \in 1..Len(Members) : WidthOf(Members[k]) = WidthOf(Members[1])

\* the lines of a box share their x when its members have the same width
CentredWhenEqual == (NormalizedSvg /\ EqualWidths) => SharedCentre

\* C21: in a class box of several members every emitted text line has x equal
\* to half the width of the box's first member, so all lines share one x.
C21_FirstMemberWidth == NormalizedSvg => SharedCentre

IsTitle(n) ==
    StyleValue(n.style, "font-weight") = "bold" /\ StyleValue(n.style, "font-size") = "16px"

IsRegular(n) ==
    StyleValue(n.style, "font-weight") = "500" /\ StyleValue(n.style, "font-size") = "14px"

NoMarkerIn(text_content) ==
    \A k \in 1..Len(text_content) : text_content[k] \notin {"+", "-", "#", "~"}

Declarations(style, prop) == Cardinality({k \in 1..Len(style) : style[k].prop = prop})

\* the element the last style function was applied to, after and before
Styled == dom[lastOp.i]
Unstyled == prevDom[lastOp.i]

\* the text pass leaves one fill declaration, the dark colour, and declares
\* font-weight and font-family once when the element declared neither
OneFillDeclaration ==
    lastOp.f = "text" =>
        /\ Declarations(Styled.style, "fill") = 1
        /\ StyleValue(Styled.style, "fill") = DarkImportant
        /\ \A prop \in {"font-weight", "font-family"} :
              Declarations(Unstyled.style, prop) = 0 =>
                  Declarations(Styled.style, prop) = 1

\* C23: after the text pass has styled a text or tspan element, whatever its
\* style was, the style holds exactly one fill declaration (the dark colour),
\* exactly one font-weight declaration and exactly one font-family
\* declaration.
C23_NoDuplicateDeclaration ==
    lastOp.f = "text" =>
        /\ Declarations(Styled.style, "fill") = 1
        /\ StyleValue(Styled.style, "fill") = DarkImportant
        /\ Declarations(Styled.style, "font-weight") = 1
        /\ Declarations(Styled.style, "font-family") = 1

\* the declarations of a style attribute, in order, blanks aside
Declared(style) ==
    LET parts == StrippedParts(style)
    IN [k \in 1..Len(parts) |-> <<parts[k].prop, parts[k].val>>]

StandardStroke == <<"stroke", StrokeColor>>

\* the stroke policy stated for paths: append colour and width when no stroke
\* is declared, else replace each stroke declaration and keep the rest
StrokePolicy(old) ==
    IF Declarations(old, "stroke") = 0
    THEN Declared(old) \o <<StandardStroke, <<"stroke-width", "2px">>>>
    ELSE [k \in 1..Len(Declared(old)) |->
             IF Declared(old)[k][1] = "stroke" THEN StandardStroke ELSE Declared(old)[k]]

\* no property of the style merely ends in "stroke"
PlainStroke(style) == \A k \in 1..Len(style) : style[k].prop # "-webkit-text-stroke"

\* the path policy holds whenever "stroke:" occurs in the style only as the
\* stroke property itself
PathPolicyOnPlainStroke ==
    (lastOp.f = "path" /\ PlainStroke(Unstyled.style)) =>
        /\ Declared(Styled.style) = StrokePolicy(Unstyled.style)
        /\ StyleValue(Styled.style, "stroke") = StrokeColor

\* C24: the path pass appends stroke #374151 and stroke-width 2px to a style
\* without a stroke declaration, and replaces the stroke declaration of a
\* style that has one, leaving every other declaration (stroke-width too) as
\* it was; afterwards the style always declares the standard stroke colour.
C24_PathStrokePolicy ==
    lastOp.f = "path" =>
        /\ Declared(Styled.style) = StrokePolicy(Unstyled.style)
        /\ StyleValue(Styled.style, "stroke") = StrokeColor

\* the shape policy as stated: the stroke policy of paths, then a light fill
\* when none is declared
ShapePolicy(old) ==
    IF Declarations(old, "fill") = 0
    THEN Append(StrokePolicy(old), <<"fill", LightFill>>)
    ELSE StrokePolicy(old)

\* a shape without a stroke declaration gets colour and width, a shape without
\* a fill declaration the light fill; other declarations stay
ShapeDefaultsAppended ==
    (lastOp.f = "shape" /\ PlainStroke(Unstyled.style)
        /\ Declarations(Unstyled.style, "stroke") = 0) =>
        Declared(Styled.style) = ShapePolicy(Unstyled.style)

\* C25: the shape pass applies the stroke policy of paths (append stroke
\* #374151 and stroke-width 2px when none is declared, replace a declared
\* stroke with #374151 and keep stroke-width) and appends fill #f9fafb when no
\* fill is declared.
C25_ShapePolicy ==
    lastOp.f = "shape" => Declared(Styled.style) = ShapePolicy(Unstyled.style)

\* with the webkit case aside, only the replacement of a declared stroke fails
ShapeKeepsDeclaredStroke ==
    (lastOp.f = "shape" /\ PlainStroke(Unstyled.style)
        /\ Declarations(Unstyled.style, "stroke") > 0) =>
        /\ StyleValue(Styled.style, "stroke") = StyleValue(Unstyled.style, "stroke")
        /\ Declarations(Unstyled.style, "fill") > 0 =>
              Declared(Styled.style) = Declared(Unstyled.style)

\* the foreignObject whose text is extracted: the first of the input
Subject == CHOOSE i \in InputForeignObjects : \A j \in InputForeignObjects : i <= j

\* the div and span elements below the subject, in document order
WrappersBelow ==
    SelectSeq(Indices(input),
              LAMBDA j : input[j].tag \in {"div", "span"} /\ IsAncestor(input, Subject, j))

TrimmedText(k) == get_text(input, WrappersBelow[k])

\* the text as stated: the longest trimmed text of a div or span, the first
\* of several longest; without any, the trimmed text of the whole subtree
StatedText ==
    LET withText == {k \in 1..Len(WrappersBelow) : TrimmedText(k) # <<>>}
    IN IF withText = {} THEN get_text(input, Subject)
       ELSE TrimmedText(CHOOSE k \in withText :
                \A m \in withText :
                    \/ Len(TrimmedText(m)) < Len(TrimmedText(k))
                    \/ Len(TrimmedText(m)) = Len(TrimmedText(k)) /\ k <= m)

\* C26: the text taken from a foreignObject is the longest trimmed text among
\* its div and span descendants, the first in document order of several
\* longest; when none of them has text it is the trimmed text of the whole
\* subtree; when that is empty too no text element is made for it.
C26_ExtractText ==
    NormalizedSvg =>
        /\ extract_text(input, Subject) = StatedText
        /\ IF StatedText = <<>> THEN TextsFrom(converted, Subject) = {}
           ELSE /\ Cardinality(TextsFrom(converted, Subject)) = 1
                /\ \A j \in TextsFrom(converted, Subject) : converted[j].text = StatedText

\* two wrappers equally long, the first one taken
C26_Witness ==
    /\ NormalizedSvg
    /\ \E k, m \in 1..Len(WrappersBelow) :
          /\ k < m
          /\ TrimmedText(k) # TrimmedText(m)
          /\ Len(TrimmedText(k)) = Len(TrimmedText(m))
          /\ StatedText = TrimmedText(k)
    /\ \E j \in TextsFrom(converted, Subject) : converted[j].text = StatedText

\* the fallback to the whole subtree is taken, and the case without any text
C26_WitnessFallback ==
    /\ NormalizedSvg
    /\ WrappersBelow # <<>>
    /\ \A k \in 1..Len(WrappersBelow) : TrimmedText(k) = <<>>
    /\ \E j \in TextsFrom(converted, Subject) : converted[j].text = get_text(input, Subject)

\* the first line of the content that is not blank (0 when all are)
Opening == IF NonBlank(call.content) = {} THEN 0 ELSE First(NonBlank(call.content))

StartsWithDashes ==
    Opening # 0 /\ StartsWith(LStrip(call.content[Opening]), tDashes)

OpensFrontMatter == Opening # 0 /\ Strip(call.content[Opening]) = tDashes

\* the lines after the opening one that consist of '---' only
Closers == {i \in (Opening + 1)..Len(call.content) : Strip(call.content[i]) = tDashes}

\* the text after the closing delimiter, leading whitespace stripped
AfterClosing == join_lstrip(SubSeq(call.content, First(Closers) + 1, Len(call.content)))

FrontMatterAsStated ==
    /\ (OpensFrontMatter /\ Closers # {}) => ret.content = AfterClosing
    /\ (~StartsWithDashes \/ Closers = {}) => ret.content = call.content

\* the front matter is removed as stated when the content's very first line
\* opens it, and content not starting with '---' comes back as it was
FrontMatterFromFirstLine ==
    (Returns("remove_yaml_frontmatter") /\ Opening <= 1) => FrontMatterAsStated

\* C27: when the content, leading whitespace and blank lines aside, starts
\* with a '---' line and a later line of '---' alone closes the block, the
\* result is the text after the closing line with its leading whitespace
\* stripped; when the content does not start with '---' or has no closing
\* line, the content is returned as it was.
C27_FrontMatterRemoved == Returns("remove_yaml_frontmatter") => FrontMatterAsStated

IsFence(line) == StartsWith(line, tFence)

FencesBefore(k) == Cardinality({m \in 1..(k - 1) : IsFence(call.content[m])})

\* line k lies between an opening fence and the fence that closes it
InsideFence(k) ==
    /\ ~IsFence(call.content[k])
    /\ FencesBefore(k) % 2 = 1
    /\ \E m \in (k + 1)..Len(call.content) : IsFence(call.content[m])

Shifted(n) == IF n + 3 < 6 THEN n + 3 ELSE 6

\* line by line: a line not beginning with '#' is returned as it was, a line
\* of n leading '#' comes back with min(n+3, 6) of them, a blank and its text
HeadingsShifted ==
    Returns("adjust_heading_levels") =>
        /\ Len(ret.content) = Len(call.content)
        /\ \A k \in 1..Len(call.content) :
              LET line == call.content[k]
                  n == LeadingHashes(line)
              IN IF n = 0 THEN ret.content[k] = line
                 ELSE ret.content[k] =
                          Hashes(Shifted(n)) \o <<" ">> \o Strip(SubSeq(line, n + 1, Len(line)))

\* C29: the heading pass changes heading lines only: every line inside a
\* fenced code block, a line beginning with '#' included, is returned as it
\* was.
C29_CodeUnchanged ==
    Returns("adjust_heading_levels") =>
        /\ Len(ret.content) = Len(call.content)
        /\ \A k \in 1..Len(call.content) :
              InsideFence(k) => ret.content[k] = call.content[k]

\* outside '#' lines, code in a fence is returned as it was
PlainCodeUnchanged ==
    Returns("adjust_heading_levels") =>
        \A k \in 1..Len(call.content) :
            (InsideFence(k) /\ LeadingHashes(call.content[k]) = 0) =>
                ret.content[k] = call.content[k]

\* a browser handle is never held without playwright, and once a launch has
\* succeeded the handle stays until the browser is closed
HandleAfterLaunch ==
    /\ browser = "live" => playwright = "live"
    /\ (run = "running" /\ launched > 0) => browser = "live"
    /\ (rpc = "new_page" /\ browser = "None") => (playwright = "live" /\ launched = 0)

\* C28: whenever init_browser has returned normally (the call is about to
\* open its page) the browser handle is set, and between calls the renderer
\* never holds playwright without a browser, the state a failed launch would
\* leave and in which every later render fails.
C28_HandleInvariant ==
    /\ rpc = "new_page" => browser = "live"
    /\ (rpc = "idle" /\ playwright = "live") => browser = "live"

RECURSIVE Flatten(_)
Flatten(lists) == IF lists = <<>> THEN <<>> ELSE Head(lists) \o Flatten(Tail(lists))

\* every entry of the files lists of the returned structure's sections and
\* subsections
ListedFiles ==
    LET sections == ret.book_structure.sections
    IN Flatten([k \in 1..Len(sections) |->
                   sections[k].files
                       \o Flatten([m \in 1..Len(sections[k].subsections) |->
                                      sections[k].subsections[m].files])])

TimesListed(path) == Cardinality({k \in 1..Len(ListedFiles) : ListedFiles[k] = path})

Scanned == {call.markdown_files[k] : k \in 1..Len(call.markdown_files)}

\* the directories between docs/ and the file
Depth(path) == Len(str_split(path, "/", -1)) - 2

\* every file in a directory below docs/ is listed once, and nothing else is
FilesBelowSectionsListed ==
    Returns("generate_book_structure") =>
        /\ \A path \in Scanned : Depth(path) >= 1 => TimesListed(path) = 1
        /\ \A k \in 1..Len(ListedFiles) : ListedFiles[k] \in Scanned

\* C30: every path of markdown_files, the files directly in docs/ included,
\* appears exactly once among the files lists of the sections and subsections
\* of the structure generate_book_structure returns.
C30_NoFileLost ==
    Returns("generate_book_structure") =>
        \A path \in Scanned : TimesListed(path) = 1

====
